---------------------------- MODULE Spec2Model ----------------------------
(***************************************************************************)
(* Secure-storage trusted application: the chunked write session, the      *)
(* size-negotiating read, delete and the single-shot write, modelled from  *)
(* code/cpu and time cal/secure_storage/ta/secure_storage_ta.c.            *)
(*                                                                         *)
(* Byte strings are kept run-length encoded: a sequence of runs <<v, n>>   *)
(* (n bytes of value v, n > 0, adjacent runs of different value), so that  *)
(* objects of several times CHUNK_SIZE bytes stay small values.            *)
(***************************************************************************)
EXTENDS Integers, Sequences, FiniteSets, TLC

\* #define CHUNK_SIZE (16 * 1024)
CHUNK_SIZE == 16384

\* Most chunk commands accepted in one write stream (the model's bound).
MaxChunks == 2

\* Object handles the trusted application can hold open at once (bound).
MaxHandles == 3

Ids == {"obj1", "obj2"}
Sessions == {1, 2}

\* TEE_HANDLE_NULL
TEE_HANDLE_NULL == 0

\* the AES block size the cipher application checks chunks against
AES_BLOCK_SIZE == 16

\* Cipher operations the cipher application can have allocated at once (bound).
MaxOps == 3

\* Random values TEE_GenerateRandom hands out in one run (bound): a key and
\* an IV for each key generation.
MaxRandom == 4

\* Most plaintext blocks encrypted in one stream (bound).
MaxBlocks == 2

\* Cap of the cumulative time counters, in microseconds (bound).
MaxTimeUs == 1500

---------------------------------------------------------------------------
(* Byte strings *)

RECURSIVE BLen(_)
BLen(b) == IF b = <<>> THEN 0 ELSE b[1][2] + BLen(Tail(b))

RECURSIVE BNorm(_)
BNorm(b) ==
    IF b = <<>> THEN <<>>
    ELSE IF b[1][2] = 0 THEN BNorm(Tail(b))
    ELSE LET r == BNorm(Tail(b))
         IN  IF r # <<>> /\ r[1][1] = b[1][1]
             THEN <<(<<b[1][1], b[1][2] + r[1][2]>>)>> \o Tail(r)
             ELSE <<b[1]>> \o r

BCat(a, b) == BNorm(a \o b)

BFill(v, n) == IF n <= 0 THEN <<>> ELSE <<(<<v, n>>)>>

\* the first k bytes of b (all of b when k >= BLen(b))
RECURSIVE BTake(_, _)
BTake(b, k) ==
    IF k <= 0 \/ b = <<>> THEN <<>>
    ELSE IF b[1][2] >= k THEN <<(<<b[1][1], k>>)>>
    ELSE <<b[1]>> \o BTake(Tail(b), k - b[1][2])

\* b without its first k bytes
RECURSIVE BDrop(_, _)
BDrop(b, k) ==
    IF b = <<>> THEN <<>>
    ELSE IF k <= 0 THEN b
    ELSE IF b[1][2] > k THEN <<(<<b[1][1], b[1][2] - k>>)>> \o Tail(b)
    ELSE BDrop(Tail(b), k - b[1][2])

\* TEE_MemMove(dst + off, src, n): dst with the n bytes at off replaced by src
MemMoveAt(dst, off, src) ==
    BCat(BCat(BTake(dst, off), src), BDrop(dst, off + BLen(src)))

---------------------------------------------------------------------------
(* The persistent object store of the trusted execution environment, as the *)
(* code uses it: objects keyed by identifier, object handles with a data    *)
(* position and the access flags they were opened with.                     *)

VARIABLES
    store,      \* identifier -> [present, data]: the persistent objects
    handles,    \* handle number -> the open object handle, or ClosedHandle
    sess,       \* session -> its struct write_session
    stream,     \* history: per session, the chunks accepted in its open stream
    last        \* the last command, its result, the injected failure it met

\* State of the cipher trusted application
\* (code/enc-1mb/secure_storage/ta/secure_storage_ta.c).
VARIABLES
    csess,      \* session -> its struct crypto_session
    ops,        \* operation handle -> the cipher operation, or FreeOp
    kobjs,      \* object handle -> the transient key object, or FreeKeyObj
    rng,        \* how many random values TEE_GenerateRandom has handed out
    cout,       \* history: per session, the ciphertext of its last ENCRYPT_CHUNK
    cfirst,     \* history: a first-chunk ENCRYPT_CHUNK of the session succeeded
    clast       \* the last cipher command, its result, the fault it met

\* State of the host program's padding helpers
\* (code/enc-1mb/secure_storage/host/main.c).
VARIABLES
    host        \* the buffer handed to pad_data and unpad_data, or NoHost

svars == <<store, handles, sess, stream, last>>
cvars == <<csess, ops, kobjs, rng, cout, cfirst, clast>>
vars == <<store, handles, sess, stream, last,
          csess, ops, kobjs, rng, cout, cfirst, clast, host>>

Absent == [present |-> FALSE, data |-> <<>>]
Present(d) == [present |-> TRUE, data |-> d]

ClosedHandle == [open |-> FALSE, id |-> "", pos |-> 0, flags |-> {}, owner |-> 0]
OpenHandle(id, flags, s) ==
    [open |-> TRUE, id |-> id, pos |-> 0, flags |-> flags, owner |-> s]

HandleIds == 1..MaxHandles

IsOpenHandle(hs, h) == h \in HandleIds /\ hs[h].open

HasFreeHandle(hs) == \E h \in HandleIds : ~hs[h].open

FreeHandle(hs) == CHOOSE h \in HandleIds :
                      ~hs[h].open /\ \A g \in HandleIds : g < h => hs[g].open

\* Access rights of two handles on one object conflict unless both share:
\* TEE_DATA_FLAG_ACCESS_WRITE_META is exclusive, READ needs SHARE_READ on
\* both handles, WRITE needs SHARE_WRITE on both.
FlagsConflict(oflags, nflags) ==
    \/ "WRITE_META" \in (oflags \cup nflags)
    \/ "READ" \in (oflags \cup nflags) /\ ~("SHARE_READ" \in (oflags \cap nflags))
    \/ "WRITE" \in (oflags \cup nflags) /\ ~("SHARE_WRITE" \in (oflags \cap nflags))

AccessConflict(hs, id, nflags) ==
    \E h \in HandleIds :
        hs[h].open /\ hs[h].id = id /\ FlagsConflict(hs[h].flags, nflags)

\* flags of the four places that open or create an object
ChunkCreateFlags == {"WRITE", "WRITE_META", "OVERWRITE"}
RawCreateFlags == {"READ", "WRITE", "WRITE_META", "OVERWRITE"}
ReadOpenFlags == {"READ", "SHARE_READ"}
DeleteOpenFlags == {"READ", "WRITE_META"}

\* error codes the store's primitives fail with when a failure is injected
StorageFullError == "TEE_ERROR_STORAGE_NO_SPACE"
CorruptError == "TEE_ERROR_CORRUPT_OBJECT"

\* a create that keeps the data of the object it overwrites
TEE_CreatePersistentObject_NoTruncate(st, hs, id, flags, fail) ==
    IF AccessConflict(hs, id, flags)
    THEN [res |-> "TEE_ERROR_ACCESS_CONFLICT", store |-> st, created |-> FALSE]
    ELSE IF fail
    THEN [res |-> StorageFullError, store |-> st, created |-> FALSE]
    ELSE [res |-> "TEE_SUCCESS",
          store |-> [st EXCEPT ![id] = Present(st[id].data)], created |-> TRUE]

\* TEE_CreatePersistentObject(TEE_STORAGE_PRIVATE, id, flags, ..., &object):
\* [res, store, created]; on failure the object handle is TEE_HANDLE_NULL
\* and the store is as before (an overwrite is atomic).
TEE_CreatePersistentObject(st, hs, id, flags, fail) ==
    IF AccessConflict(hs, id, flags)
    THEN [res |-> "TEE_ERROR_ACCESS_CONFLICT", store |-> st, created |-> FALSE]
    ELSE IF st[id].present /\ "OVERWRITE" \notin flags
    THEN [res |-> "TEE_ERROR_ACCESS_CONFLICT", store |-> st, created |-> FALSE]
    ELSE IF fail
    THEN [res |-> StorageFullError, store |-> st, created |-> FALSE]
    ELSE [res |-> "TEE_SUCCESS",
          store |-> [st EXCEPT ![id] = Present(<<>>)], created |-> TRUE]

\* TEE_OpenPersistentObject(TEE_STORAGE_PRIVATE, id, flags, &object): its result
TEE_OpenPersistentObject(st, hs, id, flags) ==
    IF AccessConflict(hs, id, flags) THEN "TEE_ERROR_ACCESS_CONFLICT"
    ELSE IF ~st[id].present THEN "TEE_ERROR_ITEM_NOT_FOUND"
    ELSE "TEE_SUCCESS"

\* TEE_WriteObjectData(object, data, size): the object's data after writing
\* at the handle's data position (a gap is zero-filled)
TEE_WriteObjectData(content, pos, data) ==
    LET padded == IF pos > BLen(content)
                  THEN BCat(content, BFill(0, pos - BLen(content)))
                  ELSE content
    IN  MemMoveAt(padded, pos, data)

\* TEE_ReadObjectData(object, buf, size, &count): the bytes read at pos
TEE_ReadObjectData(content, pos, size) == BTake(BDrop(content, pos), size)

\* TEE_CloseObject(object) on the handle table: nothing for TEE_HANDLE_NULL
TEE_CloseObject(hs, h) ==
    IF h = TEE_HANDLE_NULL THEN hs ELSE [hs EXCEPT ![h] = ClosedHandle]

\* a delete that empties the object and leaves it in the store
DeleteObjectOf_Emptied(st, hs, h) == [st EXCEPT ![hs[h].id] = Present(<<>>)]

\* TEE_CloseAndDeletePersistentObject1(object): the store without the object
DeleteObjectOf(st, hs, h) == [st EXCEPT ![hs[h].id] = Absent]

---------------------------------------------------------------------------
(* The trusted application *)

\* struct write_session after TA_OpenSessionEntryPoint (TEE_Malloc zero-fills)
NewSession == [open |-> TRUE, in_progress |-> FALSE, object |-> TEE_HANDLE_NULL]
ClosedSession == [open |-> FALSE, in_progress |-> FALSE, object |-> TEE_HANDLE_NULL]

\* History of a session's stream: the identifier of its first chunk, the
\* payloads of its accepted chunk commands in the order they were issued,
\* end to end, and how many they were.
NoStream == [id |-> "", sent |-> <<>>, n |-> 0]

\* What a command returns to the dispatcher: its result, the state it leaves,
\* whether it panicked, and which fault it met: a failure injected into a
\* primitive, or a request with the wrong parameter types.
Outcome(res, st, hs, se, fault) ==
    [res |-> res, store |-> st, handles |-> hs, se |-> se, fault |-> fault,
     panic |-> FALSE]

\* a panic ends the instance of the panicking session; handles is the handle
\* table of that instance
Panic(st) ==
    [res |-> "TEE_ERROR_TARGET_DEAD", store |-> st,
     handles |-> [h \in HandleIds |-> ClosedHandle], se |-> ClosedSession,
     fault |-> "none", panic |-> TRUE]

\* a continuation chunk that is never refused
NoWriteInProgress_Unchecked(se) == FALSE

\* write_raw_chunk: else if (!sess->in_progress)
NoWriteInProgress(se) == ~se.in_progress

\* a continuation chunk that is refused when it names another identifier
\* than the object being written
ChunkBegin_ByIdentifier(s, se, st, hs, id, is_first, inj) ==
    IF is_first # 0
    THEN LET c == TEE_CreatePersistentObject(st, hs, id, ChunkCreateFlags,
                                             inj = "create")
             h == FreeHandle(hs)
         IN  IF c.res # "TEE_SUCCESS"
             THEN Outcome(c.res, st, hs, [se EXCEPT !.object = TEE_HANDLE_NULL],
                          IF c.res = StorageFullError THEN "create" ELSE "none")
             ELSE Outcome("TEE_SUCCESS", c.store,
                          [hs EXCEPT ![h] = OpenHandle(id, ChunkCreateFlags, s)],
                          [se EXCEPT !.object = h, !.in_progress = TRUE], "none")
    ELSE IF NoWriteInProgress(se)
    THEN Outcome("TEE_ERROR_BAD_STATE", st, hs, se, "none")
    ELSE IF IsOpenHandle(hs, se.object) /\ hs[se.object].id # id
    THEN Outcome("TEE_ERROR_BAD_PARAMETERS", st, hs, se, "none")
    ELSE Outcome("TEE_SUCCESS", st, hs, se, "none")

\* write_raw_chunk, "If first chunk, create/truncate object": [res, store,
\* handles, se, fault]; res is TEE_SUCCESS when the command goes on to write.
ChunkBegin(s, se, st, hs, id, is_first, inj) ==
    IF is_first # 0
    THEN LET c == TEE_CreatePersistentObject(st, hs, id, ChunkCreateFlags,
                                             inj = "create")
             h == FreeHandle(hs)
         IN  IF c.res # "TEE_SUCCESS"
             THEN Outcome(c.res, st, hs, [se EXCEPT !.object = TEE_HANDLE_NULL],
                          IF c.res = StorageFullError THEN "create" ELSE "none")
             ELSE Outcome("TEE_SUCCESS", c.store,
                          [hs EXCEPT ![h] = OpenHandle(id, ChunkCreateFlags, s)],
                          [se EXCEPT !.object = h, !.in_progress = TRUE], "none")
    ELSE IF NoWriteInProgress(se)
    THEN Outcome("TEE_ERROR_BAD_STATE", st, hs, se, "none")
    ELSE Outcome("TEE_SUCCESS", st, hs, se, "none")

\* an append failure that closes the object and leaves it in the store
ChunkWrite_NoDelete(se, st, hs, data, inj) ==
    LET h == se.object
    IN  IF ~IsOpenHandle(hs, h) THEN Panic(st)
        ELSE IF inj = "write"
        THEN Outcome(StorageFullError, st, TEE_CloseObject(hs, h),
                     [se EXCEPT !.in_progress = FALSE], "write")
        ELSE Outcome("TEE_SUCCESS",
                     [st EXCEPT ![hs[h].id] =
                         Present(TEE_WriteObjectData(st[hs[h].id].data,
                                                     hs[h].pos, data))],
                     [hs EXCEPT ![h].pos = hs[h].pos + BLen(data)],
                     se, "none")

\* write_raw_chunk, "Write the chunk": the append, and the rollback when it fails
ChunkWrite(se, st, hs, data, inj) ==
    LET h == se.object
    IN  IF ~IsOpenHandle(hs, h) THEN Panic(st)
        ELSE IF inj = "write"
        THEN Outcome(StorageFullError, DeleteObjectOf(st, hs, h),
                     TEE_CloseObject(hs, h),
                     [se EXCEPT !.in_progress = FALSE], "write")
        ELSE Outcome("TEE_SUCCESS",
                     [st EXCEPT ![hs[h].id] =
                         Present(TEE_WriteObjectData(st[hs[h].id].data,
                                                     hs[h].pos, data))],
                     [hs EXCEPT ![h].pos = hs[h].pos + BLen(data)],
                     se, "none")

\* a chunk command without the size limit
ChunkTooLarge_Unchecked(data_sz) == FALSE

\* write_raw_chunk: if (data_sz > CHUNK_SIZE)
ChunkTooLarge(data_sz) == data_sz > CHUNK_SIZE

\* write_raw_chunk on store st, handle table hs and session s's struct se
write_raw_chunk(st, hs, se, s, id, data, is_first, ptOk, inj) ==
    IF ~ptOk
    THEN Outcome("TEE_ERROR_BAD_PARAMETERS", st, hs, se, "param_types")
    ELSE IF ChunkTooLarge(BLen(data))
    THEN Outcome("TEE_ERROR_BAD_PARAMETERS", st, hs, se, "none")
    ELSE IF inj = "malloc"
    THEN Outcome("TEE_ERROR_OUT_OF_MEMORY", st, hs, se, "malloc")
    ELSE LET b == ChunkBegin(s, se, st, hs, id, is_first, inj)
         IN  IF b.res # "TEE_SUCCESS" THEN b
             ELSE ChunkWrite(b.se, b.store, b.handles, data, inj)

\* a finalize that closes the handle and stays in the writing state
write_raw_final_StaysWriting(st, hs, se) ==
    IF ~se.in_progress
    THEN Outcome("TEE_ERROR_BAD_STATE", st, hs, se, "none")
    ELSE Outcome("TEE_SUCCESS", st, TEE_CloseObject(hs, se.object), se, "none")

\* a finalize that does not look at in_progress
write_raw_final_Unchecked(st, hs, se) ==
    IF se.object # TEE_HANDLE_NULL /\ ~IsOpenHandle(hs, se.object)
    THEN Panic(st)
    ELSE Outcome("TEE_SUCCESS", st, TEE_CloseObject(hs, se.object),
                 [se EXCEPT !.in_progress = FALSE], "none")

\* write_raw_final
write_raw_final(st, hs, se) ==
    IF ~se.in_progress
    THEN Outcome("TEE_ERROR_BAD_STATE", st, hs, se, "none")
    ELSE IF se.object # TEE_HANDLE_NULL /\ ~IsOpenHandle(hs, se.object)
    THEN Panic(st)
    ELSE Outcome("TEE_SUCCESS", st, TEE_CloseObject(hs, se.object),
                 [se EXCEPT !.in_progress = FALSE], "none")

\* a sub-chunk size that is all that is left of the object, however much
SubChunkSize_Whole(remaining) == remaining

\* a sub-chunk size that is not capped by what is left of the object
SubChunkSize_Uncapped(remaining) == CHUNK_SIZE

\* read_raw_object: chunk_size = (dataSize - total_read > CHUNK_SIZE) ? ...
SubChunkSize(remaining) ==
    IF remaining > CHUNK_SIZE THEN CHUNK_SIZE ELSE remaining

\* a loop that takes whatever the store returned as the whole sub-chunk
ShortRead_Ignored(read_bytes, chunk_size) == FALSE

\* read_raw_object: if (read_bytes != chunk_size)
ShortRead(read_bytes, chunk_size) == read_bytes # chunk_size

\* read_raw_object, "Read data in chunks": the while loop, from total_read on.
\* inj = [kind, at]: the at-th store read fails ("read_err") or returns one
\* byte less than asked ("read_short"). log is the store reads in order,
\* each with the offset total_read it was issued at and the chunk_size it
\* asked for. [res, total_read, buf, reads, fault, log]
RECURSIVE ReadLoop(_, _, _, _, _, _)
ReadLoop(content, dataSize, total_read, buf, reads, inj) ==
    IF ~(total_read < dataSize)
    THEN [res |-> "TEE_SUCCESS", total_read |-> total_read, buf |-> buf,
          reads |-> reads, fault |-> "none", log |-> <<>>]
    ELSE LET chunk_size == SubChunkSize(dataSize - total_read)
             hit == inj.at = reads + 1
             asked == IF hit /\ inj.kind = "read_short"
                      THEN chunk_size - 1 ELSE chunk_size
             chunk_buffer == TEE_ReadObjectData(content, total_read, asked)
             read_bytes == BLen(chunk_buffer)
             this == <<[off |-> total_read, size |-> chunk_size]>>
         IN  IF hit /\ inj.kind = "read_err"
             THEN [res |-> CorruptError, total_read |-> total_read,
                   buf |-> buf, reads |-> reads + 1, fault |-> "read_err",
                   log |-> this]
             ELSE IF ShortRead(read_bytes, chunk_size)
             THEN [res |-> "TEE_ERROR_GENERIC", total_read |-> total_read,
                   buf |-> buf, reads |-> reads + 1,
                   fault |-> IF hit THEN "read_short" ELSE "none",
                   log |-> this]
             ELSE LET r == ReadLoop(content, dataSize, total_read + read_bytes,
                                    MemMoveAt(buf, total_read, chunk_buffer),
                                    reads + 1, inj)
                  IN  [r EXCEPT !.log = this \o @]

\* What READ hands back: the result, params[1].memref.size, the output
\* buffer, the handle table it leaves, and the number of store reads.
ReadOutcome(res, size, out, hs, reads, fault) ==
    [res |-> res, size |-> size, out |-> out, handles |-> hs,
     reads |-> reads, fault |-> fault]

\* a size test that also refuses the buffer that fits exactly
BufferTooSmall_OrEqual(dataSize, data_sz) == dataSize >= data_sz

\* a failed open reported as an internal error
ReadOpenFailed_Generic(res, buf, hs) ==
    [res |-> "TEE_ERROR_GENERIC", size |-> BLen(buf), out |-> buf,
     handles |-> hs, reads |-> 0, fault |-> "none"]

\* an undersized buffer reported without the required size
ReadShortBuffer_NoSize(dataSize, buf, hs) ==
    [res |-> "TEE_ERROR_SHORT_BUFFER", size |-> BLen(buf), out |-> buf,
     handles |-> hs, reads |-> 0, fault |-> "none"]

\* read_raw_object: if (object_info.dataSize > data_sz)
BufferTooSmall(dataSize, data_sz) == dataSize > data_sz

\* read_raw_object, the open that failed: the result is handed on as it is
ReadOpenFailed(res, buf, hs) == ReadOutcome(res, BLen(buf), buf, hs, 0, "none")

\* read_raw_object, the undersized buffer: params[1].memref.size = dataSize
ReadShortBuffer(dataSize, buf, hs) ==
    ReadOutcome("TEE_ERROR_SHORT_BUFFER", dataSize, buf, hs, 0, "none")

\* a read that returns from its failures without going through exit:
read_raw_object_LeakOnError(st, hs, s, id, buf, ptOk, inj) ==
    LET data_sz == BLen(buf)
        opened == TEE_OpenPersistentObject(st, hs, id, ReadOpenFlags)
        h == FreeHandle(hs)
        hs1 == [hs EXCEPT ![h] = OpenHandle(id, ReadOpenFlags, s)]
        closed == TEE_CloseObject(hs1, h)
        dataSize == BLen(st[id].data)
    IN  IF ~ptOk
        THEN ReadOutcome("TEE_ERROR_BAD_PARAMETERS", data_sz, buf, hs, 0, "param_types")
        ELSE IF inj.kind = "malloc"
        THEN ReadOutcome("TEE_ERROR_OUT_OF_MEMORY", data_sz, buf, hs, 0, "malloc")
        ELSE IF opened # "TEE_SUCCESS"
        THEN ReadOpenFailed(opened, buf, hs)
        ELSE IF inj.kind = "info"
        THEN ReadOutcome(CorruptError, data_sz, buf, hs1, 0, "info")
        ELSE IF BufferTooSmall(dataSize, data_sz)
        THEN ReadShortBuffer(dataSize, buf, hs1)
        ELSE LET r == ReadLoop(st[id].data, dataSize, 0, buf, 0, inj)
             IN  ReadOutcome(r.res,
                             IF r.res = "TEE_SUCCESS" THEN r.total_read ELSE data_sz,
                             r.buf,
                             IF r.res = "TEE_SUCCESS" THEN closed ELSE hs1,
                             r.reads, r.fault)

\* read_raw_object; buf is the caller's output buffer of data_sz bytes
read_raw_object(st, hs, s, id, buf, ptOk, inj) ==
    LET data_sz == BLen(buf)
        opened == TEE_OpenPersistentObject(st, hs, id, ReadOpenFlags)
        h == FreeHandle(hs)
        hs1 == [hs EXCEPT ![h] = OpenHandle(id, ReadOpenFlags, s)]
        closed == TEE_CloseObject(hs1, h)
        dataSize == BLen(st[id].data)
    IN  IF ~ptOk
        THEN ReadOutcome("TEE_ERROR_BAD_PARAMETERS", data_sz, buf, hs, 0, "param_types")
        ELSE IF inj.kind = "malloc"
        THEN ReadOutcome("TEE_ERROR_OUT_OF_MEMORY", data_sz, buf, hs, 0, "malloc")
        ELSE IF opened # "TEE_SUCCESS"
        THEN ReadOpenFailed(opened, buf, hs)
        ELSE IF inj.kind = "info"
        THEN ReadOutcome(CorruptError, data_sz, buf, closed, 0, "info")
        ELSE IF BufferTooSmall(dataSize, data_sz)
        THEN ReadShortBuffer(dataSize, buf, closed)
        ELSE LET r == ReadLoop(st[id].data, dataSize, 0, buf, 0, inj)
             IN  ReadOutcome(r.res,
                             IF r.res = "TEE_SUCCESS" THEN r.total_read ELSE data_sz,
                             r.buf, closed, r.reads, r.fault)

\* a delete that opens the object and only closes it again
delete_object_CloseOnly(st, hs, se, s, id, ptOk, inj) ==
    LET opened == TEE_OpenPersistentObject(st, hs, id, DeleteOpenFlags)
    IN  IF ~ptOk
        THEN Outcome("TEE_ERROR_BAD_PARAMETERS", st, hs, se, "param_types")
        ELSE IF inj = "malloc"
        THEN Outcome("TEE_ERROR_OUT_OF_MEMORY", st, hs, se, "malloc")
        ELSE Outcome(opened, st, hs, se, "none")

\* delete_object
delete_object(st, hs, se, s, id, ptOk, inj) ==
    LET opened == TEE_OpenPersistentObject(st, hs, id, DeleteOpenFlags)
        h == FreeHandle(hs)
        hs1 == [hs EXCEPT ![h] = OpenHandle(id, DeleteOpenFlags, s)]
    IN  IF ~ptOk
        THEN Outcome("TEE_ERROR_BAD_PARAMETERS", st, hs, se, "param_types")
        ELSE IF inj = "malloc"
        THEN Outcome("TEE_ERROR_OUT_OF_MEMORY", st, hs, se, "malloc")
        ELSE IF opened # "TEE_SUCCESS"
        THEN Outcome(opened, st, hs, se, "none")
        ELSE Outcome("TEE_SUCCESS", DeleteObjectOf(st, hs1, h),
                     TEE_CloseObject(hs1, h), se, "none")

\* a single-shot write that leaves its object handle open
create_raw_object_NoClose(st, hs, se, s, id, data, ptOk, inj) ==
    LET c == TEE_CreatePersistentObject(st, hs, id, RawCreateFlags,
                                        inj = "create")
        h == FreeHandle(hs)
        hs1 == [hs EXCEPT ![h] = OpenHandle(id, RawCreateFlags, s)]
    IN  IF ~ptOk \/ inj = "malloc" \/ BLen(data) > CHUNK_SIZE
                 \/ c.res # "TEE_SUCCESS"
        THEN Outcome("TEE_ERROR_GENERIC", st, hs, se, "none")
        ELSE Outcome("TEE_SUCCESS",
                     [c.store EXCEPT ![id] =
                         Present(TEE_WriteObjectData(c.store[id].data,
                                                     hs1[h].pos, data))],
                     hs1, se, "none")

\* create_raw_object: the single-shot write
create_raw_object(st, hs, se, s, id, data, ptOk, inj) ==
    LET c == TEE_CreatePersistentObject(st, hs, id, RawCreateFlags,
                                        inj = "create")
        h == FreeHandle(hs)
        hs1 == [hs EXCEPT ![h] = OpenHandle(id, RawCreateFlags, s)]
    IN  IF ~ptOk
        THEN Outcome("TEE_ERROR_BAD_PARAMETERS", st, hs, se, "param_types")
        ELSE IF inj = "malloc"
        THEN Outcome("TEE_ERROR_OUT_OF_MEMORY", st, hs, se, "malloc")
        ELSE IF BLen(data) > CHUNK_SIZE
        THEN Outcome("TEE_ERROR_OUT_OF_MEMORY", st, hs, se, "none")
        ELSE IF c.res # "TEE_SUCCESS"
        THEN Outcome(c.res, st, hs, se,
                     IF c.res = StorageFullError THEN "create" ELSE "none")
        ELSE IF inj = "write"
        THEN Outcome(StorageFullError, DeleteObjectOf(c.store, hs1, h),
                     TEE_CloseObject(hs1, h), se, "write")
        ELSE Outcome("TEE_SUCCESS",
                     [c.store EXCEPT ![id] =
                         Present(TEE_WriteObjectData(c.store[id].data,
                                                     hs1[h].pos, data))],
                     TEE_CloseObject(hs1, h), se, "none")

---------------------------------------------------------------------------
(* The cipher trusted application: AES-CBC without padding, chunk by chunk. *)
(*                                                                          *)
(* Data is a sequence of 16-byte blocks followed by `extra` bytes that do   *)
(* not fill a block. A block is a term: a plaintext block <<"p", v>>, a     *)
(* ciphertext block <<"c", key, iv, pre>> (the CBC ciphertext of the last   *)
(* block of the plaintext pre under key and iv: in CBC a ciphertext block   *)
(* is a function of the key, the IV and the plaintext up to that block),    *)
(* or <<"g", key, prev, c>>, what decrypting block c after block prev       *)
(* under key gives when c is not the ciphertext that follows prev under     *)
(* that key. Distinct terms are distinct blocks (an ideal cipher), and      *)
(* every value TEE_GenerateRandom hands out is new.                         *)

CData(blocks, extra) == [blocks |-> blocks, extra |-> extra]
NoData == CData(<<>>, 0)
CLen(d) == AES_BLOCK_SIZE * Len(d.blocks) + d.extra

PlainBlock(v) == <<"p", v>>
CipherBlock(key, iv, pre) == <<"c", key, iv, pre>>
GarbageBlock(key, prev, c) == <<"g", key, prev, c>>
IvBlock(iv) == <<"iv", iv>>

\* a generator that hands out the same bytes every time
TEE_GenerateRandom_Fixed(n) == 1

\* TEE_GenerateRandom: the n-th value handed out
TEE_GenerateRandom(n) == n + 1

OpIds == 1..MaxOps
KeyObjIds == 1..Cardinality(Sessions)

FreeOp == [alloc |-> FALSE, mode |-> "", key |-> 0, iv |-> 0, pre |-> <<>>,
           prev |-> IvBlock(0), pend |-> 0, owner |-> 0]
FreeKeyObj == [alloc |-> FALSE, key |-> 0, owner |-> 0]

IsOp(os, h) == h \in OpIds /\ os[h].alloc
IsKeyObj(ks, h) == h \in KeyObjIds /\ ks[h].alloc
HasFreeOp(os) == \E h \in OpIds : ~os[h].alloc
NewOp(os) == CHOOSE h \in OpIds : ~os[h].alloc /\ \A g \in OpIds : g < h => os[g].alloc
HasFreeKeyObj(ks) == \E h \in KeyObjIds : ~ks[h].alloc
NewKeyObj(ks) ==
    CHOOSE h \in KeyObjIds : ~ks[h].alloc /\ \A g \in KeyObjIds : g < h => ks[g].alloc

\* TEE_FreeOperation(op), TEE_FreeTransientObject(object) on their tables
TEE_FreeOperation(os, h) == [os EXCEPT ![h] = FreeOp]
TEE_FreeTransientObject(ks, h) == [ks EXCEPT ![h] = FreeKeyObj]

\* a stream that starts from a zero IV instead of the one it is given
TEE_CipherInit_ZeroIv(op, iv) ==
    [op EXCEPT !.iv = iv, !.pre = <<>>, !.prev = IvBlock(0), !.pend = 0]

\* TEE_CipherInit(op, iv, AES_IV_SIZE): the operation at the start of a stream
TEE_CipherInit(op, iv) ==
    [op EXCEPT !.iv = iv, !.pre = <<>>, !.prev = IvBlock(iv), !.pend = 0]

\* the block that precedes ciphertext block c in its stream
Preceding(c) ==
    IF Len(c[4]) = 1 THEN IvBlock(c[3])
    ELSE CipherBlock(c[2], c[3], SubSeq(c[4], 1, Len(c[4]) - 1))

\* CBC decryption of block c that follows block prev, under key
DecryptBlock(key, prev, c) ==
    IF c[1] = "c" /\ c[2] = key /\ prev = Preceding(c)
    THEN c[4][Len(c[4])]
    ELSE GarbageBlock(key, prev, c)

\* a block put together from bytes of two blocks of the input stream
MisalignedBlock(i) == <<"m", i>>

\* TEE_CipherUpdate(op, src, srcLen, dst, &dstLen): [op, out], the operation
\* after the call and the blocks written to dst. Bytes that do not fill a
\* block stay in the operation (pend) and shift the blocks of later calls.
TEE_CipherUpdate(op, data) ==
    LET blocks == data.blocks
        n == Len(blocks)
        total == op.pend + CLen(data)
        m == total \div AES_BLOCK_SIZE
    IN  IF op.pend # 0
        THEN [op |-> [op EXCEPT !.pend = total % AES_BLOCK_SIZE,
                                !.pre = @ \o [i \in 1..m |-> MisalignedBlock(i)],
                                !.prev = IF m = 0 THEN @ ELSE MisalignedBlock(m)],
              out |-> [i \in 1..m |->
                         GarbageBlock(op.key, op.prev, MisalignedBlock(i))]]
        ELSE IF op.mode = "enc"
        THEN [op |-> [op EXCEPT !.pre = @ \o blocks, !.pend = data.extra],
              out |-> [i \in 1..n |->
                         CipherBlock(op.key, op.iv,
                                     op.pre \o SubSeq(blocks, 1, i))]]
        ELSE [op |-> [op EXCEPT !.prev = IF n = 0 THEN @ ELSE blocks[n],
                                !.pend = data.extra],
              out |-> [i \in 1..n |->
                         DecryptBlock(op.key,
                                      IF i = 1 THEN op.prev ELSE blocks[i - 1],
                                      blocks[i])]]

\* struct crypto_session after TA_OpenSessionEntryPoint
NewCryptoSession ==
    [open |-> TRUE, enc_op |-> TEE_HANDLE_NULL, dec_op |-> TEE_HANDLE_NULL,
     key_handle |-> TEE_HANDLE_NULL, iv |-> 0, initialized |-> FALSE,
     total_enc_time_us |-> 0, total_dec_time_us |-> 0, total_bytes |-> 0]
ClosedCryptoSession == [NewCryptoSession EXCEPT !.open = FALSE]

\* What a cipher command returns to the dispatcher: its result, the session,
\* the operations and key objects it leaves, the random values used up, the
\* blocks it wrote to the output buffer, params[1].memref.size and
\* params[3].value.a, the fault it met and whether it panicked.
COutcome(res, se, os, ks, r, out, out_len, us, fault) ==
    [res |-> res, se |-> se, ops |-> os, kobjs |-> ks, rng |-> r, out |-> out,
     out_len |-> out_len, elapsed_us |-> us, fault |-> fault, panic |-> FALSE]

\* a panic ends the session's instance: what it had allocated is released
CPanic(s, os, ks, r, out_sz) ==
    [res |-> "TEE_ERROR_TARGET_DEAD", se |-> ClosedCryptoSession,
     ops |-> [h \in OpIds |-> IF os[h].owner = s THEN FreeOp ELSE os[h]],
     kobjs |-> [h \in KeyObjIds |-> IF ks[h].owner = s THEN FreeKeyObj ELSE ks[h]],
     rng |-> r, out |-> <<>>, out_len |-> out_sz, elapsed_us |-> 0,
     fault |-> "none", panic |-> TRUE]

\* init_crypto_key: [res, se, kobjs, rng, fault]
init_crypto_key(se, ks, r, s, inj) ==
    LET key_data == TEE_GenerateRandom(r)
        h == NewKeyObj(ks)
    IN  IF inj = "key_alloc" \/ ~HasFreeKeyObj(ks)
        THEN [res |-> "TEE_ERROR_OUT_OF_MEMORY", se |-> se, kobjs |-> ks,
              rng |-> r + 1, fault |-> "key_alloc"]
        ELSE IF inj = "key_populate"
        THEN [res |-> "TEE_ERROR_BAD_PARAMETERS",
              se |-> [se EXCEPT !.key_handle = h], kobjs |-> ks,
              rng |-> r + 1, fault |-> "key_populate"]
        ELSE [res |-> "TEE_SUCCESS",
              se |-> [se EXCEPT !.key_handle = h,
                                !.iv = TEE_GenerateRandom(r + 1)],
              kobjs |-> [ks EXCEPT ![h] =
                            [alloc |-> TRUE, key |-> key_data, owner |-> s]],
              rng |-> r + 2, fault |-> "none"]

\* init_encryption and init_decryption: allocate the operation into
\* sess->enc_op or sess->dec_op (field), set its key, start it with the IV.
\* [res, se, ops, fault, panic]
InitOperation(se, os, ks, s, field, mode, inj) ==
    LET h == NewOp(os)
        held == [se EXCEPT ![field] = h]
    IN  IF inj = "op_alloc" \/ ~HasFreeOp(os)
        THEN [res |-> "TEE_ERROR_OUT_OF_MEMORY", se |-> se, ops |-> os,
              fault |-> "op_alloc", panic |-> FALSE]
        ELSE IF ~IsKeyObj(ks, se.key_handle)
        THEN [res |-> "TEE_ERROR_TARGET_DEAD", se |-> se, ops |-> os,
              fault |-> "none", panic |-> TRUE]
        ELSE IF inj = "set_key"
        THEN [res |-> "TEE_ERROR_CORRUPT_OBJECT", se |-> held, ops |-> os,
              fault |-> "set_key", panic |-> FALSE]
        ELSE [res |-> "TEE_SUCCESS", se |-> held,
              ops |-> [os EXCEPT ![h] =
                          TEE_CipherInit([FreeOp EXCEPT !.alloc = TRUE,
                                             !.mode = mode,
                                             !.key = ks[se.key_handle].key,
                                             !.owner = s], se.iv)],
              fault |-> "none", panic |-> FALSE]

init_encryption(se, os, ks, s, inj) ==
    InitOperation(se, os, ks, s, "enc_op", "enc", inj)

init_decryption(se, os, ks, s, inj) ==
    InitOperation(se, os, ks, s, "dec_op", "dec", inj)

\* encrypt_chunk, "Initialize on first chunk":
\* [res, se, ops, kobjs, rng, fault, panic]
EncryptBegin(se, os, ks, r, s, is_first, inj) ==
    IF is_first = 0
    THEN [res |-> "TEE_SUCCESS", se |-> se, ops |-> os, kobjs |-> ks,
          rng |-> r, fault |-> "none", panic |-> FALSE]
    ELSE LET k == IF ~se.initialized
                  THEN init_crypto_key(se, ks, r, s, inj)
                  ELSE [res |-> "TEE_SUCCESS", se |-> se, kobjs |-> ks,
                        rng |-> r, fault |-> "none"]
             e == init_encryption([k.se EXCEPT !.initialized = TRUE], os,
                                  k.kobjs, s, inj)
         IN  IF k.res # "TEE_SUCCESS"
             THEN [res |-> k.res, se |-> k.se, ops |-> os, kobjs |-> k.kobjs,
                   rng |-> k.rng, fault |-> k.fault, panic |-> FALSE]
             ELSE [res |-> e.res,
                   se |-> IF e.res = "TEE_SUCCESS"
                          THEN [e.se EXCEPT !.total_enc_time_us = 0,
                                            !.total_bytes = 0]
                          ELSE e.se,
                   ops |-> e.ops, kobjs |-> k.kobjs, rng |-> k.rng,
                   fault |-> e.fault, panic |-> e.panic]

\* decrypt_chunk, "Initialize on first chunk"
DecryptBegin(se, os, ks, r, s, is_first, inj) ==
    IF is_first = 0
    THEN [res |-> "TEE_SUCCESS", se |-> se, ops |-> os, kobjs |-> ks,
          rng |-> r, fault |-> "none", panic |-> FALSE]
    ELSE IF ~se.initialized
    THEN [res |-> "TEE_ERROR_BAD_STATE", se |-> se, ops |-> os, kobjs |-> ks,
          rng |-> r, fault |-> "none", panic |-> FALSE]
    ELSE LET d == init_decryption(se, os, ks, s, inj)
         IN  [res |-> d.res,
              se |-> IF d.res = "TEE_SUCCESS"
                     THEN [d.se EXCEPT !.total_dec_time_us = 0]
                     ELSE d.se,
              ops |-> d.ops, kobjs |-> ks, rng |-> r,
              fault |-> d.fault, panic |-> d.panic]

\* encrypt_chunk: if (data_sz % 16 != 0)
NotBlockAligned(data_sz) == data_sz % AES_BLOCK_SIZE # 0

\* encrypt_chunk and decrypt_chunk: if (data_sz > CHUNK_SIZE)
CipherChunkTooLarge(data_sz) == data_sz > CHUNK_SIZE

\* The TEE_CipherUpdate call of encrypt_chunk and decrypt_chunk on the
\* operation sess->enc_op or sess->dec_op (field), and what follows it:
\* the counters, params[1].memref.size and params[3].value.a. b is what the
\* initialisation left.
CipherStep(b, s, field, data, out_sz, us) ==
    LET h == b.se[field]
        need == AES_BLOCK_SIZE
                  * ((b.ops[h].pend + CLen(data)) \div AES_BLOCK_SIZE)
        u == TEE_CipherUpdate(b.ops[h], data)
        counted == IF field = "enc_op"
                   THEN [b.se EXCEPT !.total_enc_time_us = @ + us,
                                     !.total_bytes = @ + CLen(data)]
                   ELSE [b.se EXCEPT !.total_dec_time_us = @ + us]
    IN  IF ~IsOp(b.ops, h)
        THEN CPanic(s, b.ops, b.kobjs, b.rng, out_sz)
        ELSE IF out_sz < need
        THEN COutcome("TEE_ERROR_SHORT_BUFFER", b.se, b.ops, b.kobjs, b.rng,
                      <<>>, out_sz, 0, "short_out")
        ELSE COutcome("TEE_SUCCESS", counted, [b.ops EXCEPT ![h] = u.op],
                      b.kobjs, b.rng, u.out,
                      AES_BLOCK_SIZE * Len(u.out), us, "none")

\* a command that reports whatever stopped it as one internal error
CipherStopped_Generic(b, s, res, out_sz) ==
    IF b.panic THEN CPanic(s, b.ops, b.kobjs, b.rng, out_sz)
    ELSE COutcome("TEE_ERROR_GENERIC", b.se, b.ops, b.kobjs, b.rng, <<>>,
                  out_sz, 0, b.fault)

\* what a command that stops before the cipher hands back
CipherStopped(b, s, res, out_sz) ==
    IF b.panic THEN CPanic(s, b.ops, b.kobjs, b.rng, out_sz)
    ELSE COutcome(res, b.se, b.ops, b.kobjs, b.rng, <<>>, out_sz, 0, b.fault)

\* encrypt_chunk; data is the plaintext, out_sz the size of the output
\* buffer, us the time the cipher call takes
encrypt_chunk(se, os, ks, r, s, data, out_sz, is_first, us, ptOk, inj) ==
    LET b == EncryptBegin(se, os, ks, r, s, is_first, inj)
    IN  IF ~ptOk
        THEN COutcome("TEE_ERROR_BAD_PARAMETERS", se, os, ks, r, <<>>, out_sz,
                      0, "param_types")
        ELSE IF CipherChunkTooLarge(CLen(data))
        THEN COutcome("TEE_ERROR_BAD_PARAMETERS", se, os, ks, r, <<>>, out_sz,
                      0, "none")
        ELSE IF b.res # "TEE_SUCCESS"
        THEN CipherStopped(b, s, b.res, out_sz)
        ELSE IF NotBlockAligned(CLen(data))
        THEN CipherStopped(b, s, "TEE_ERROR_BAD_PARAMETERS", out_sz)
        ELSE CipherStep(b, s, "enc_op", data, out_sz, us)

\* decrypt_chunk; data is the ciphertext
decrypt_chunk(se, os, ks, r, s, data, out_sz, is_first, us, ptOk, inj) ==
    LET b == DecryptBegin(se, os, ks, r, s, is_first, inj)
    IN  IF ~ptOk
        THEN COutcome("TEE_ERROR_BAD_PARAMETERS", se, os, ks, r, <<>>, out_sz,
                      0, "param_types")
        ELSE IF CipherChunkTooLarge(CLen(data))
        THEN COutcome("TEE_ERROR_BAD_PARAMETERS", se, os, ks, r, <<>>, out_sz,
                      0, "none")
        ELSE IF b.res # "TEE_SUCCESS"
        THEN CipherStopped(b, s, b.res, out_sz)
        ELSE CipherStep(b, s, "dec_op", data, out_sz, us)

\* "& 0xFFFFFFFF": the two 16-bit halves of the low word
Low32(n) == (((n \div 65536) % 65536) * 65536) + (n % 65536)

\* a finalize that hands the counters back as they are, in microseconds
finalize_operation_Micros(se, ptOk) ==
    [res |-> IF ptOk THEN "TEE_SUCCESS" ELSE "TEE_ERROR_BAD_PARAMETERS",
     enc_ms |-> se.total_enc_time_us, dec_ms |-> se.total_dec_time_us,
     bytes |-> Low32(se.total_bytes)]

\* finalize_operation: the result and params[0..2].value.a
finalize_operation(se, ptOk) ==
    IF ~ptOk
    THEN [res |-> "TEE_ERROR_BAD_PARAMETERS", enc_ms |-> 0, dec_ms |-> 0,
          bytes |-> 0]
    ELSE [res |-> "TEE_SUCCESS",
          enc_ms |-> se.total_enc_time_us \div 1000,
          dec_ms |-> se.total_dec_time_us \div 1000,
          bytes |-> Low32(se.total_bytes)]

\* a teardown that frees the encrypt operation only
FreeBoth_EncOnly(se, os) ==
    IF se.enc_op # TEE_HANDLE_NULL
    THEN TEE_FreeOperation(os, se.enc_op) ELSE os

\* the operations after "if (op) TEE_FreeOperation(op)" on both operations
\* of the session; freeing what is not an operation is a panic
FreeBoth(se, os) ==
    LET os1 == IF se.enc_op # TEE_HANDLE_NULL
               THEN TEE_FreeOperation(os, se.enc_op) ELSE os
    IN  IF se.dec_op # TEE_HANDLE_NULL
        THEN TEE_FreeOperation(os1, se.dec_op) ELSE os1

FreeBothPanics(se, os) ==
    \/ se.enc_op # TEE_HANDLE_NULL /\ ~IsOp(os, se.enc_op)
    \/ /\ se.dec_op # TEE_HANDLE_NULL
       /\ ~IsOp(IF se.enc_op # TEE_HANDLE_NULL
                THEN TEE_FreeOperation(os, se.enc_op) ELSE os, se.dec_op)

\* a reset that also forgets that the session has its key
reset_session_ForgetsKey(se, os, ks, r, s) ==
    IF FreeBothPanics(se, os) THEN CPanic(s, os, ks, r, 0)
    ELSE COutcome("TEE_SUCCESS",
                  [se EXCEPT !.enc_op = TEE_HANDLE_NULL,
                             !.dec_op = TEE_HANDLE_NULL,
                             !.initialized = FALSE,
                             !.total_enc_time_us = 0,
                             !.total_dec_time_us = 0,
                             !.total_bytes = 0],
                  FreeBoth(se, os), ks, r, <<>>, 0, 0, "none")

\* reset_session
reset_session(se, os, ks, r, s) ==
    IF FreeBothPanics(se, os) THEN CPanic(s, os, ks, r, 0)
    ELSE COutcome("TEE_SUCCESS",
                  [se EXCEPT !.enc_op = TEE_HANDLE_NULL,
                             !.dec_op = TEE_HANDLE_NULL,
                             !.total_enc_time_us = 0,
                             !.total_dec_time_us = 0,
                             !.total_bytes = 0],
                  FreeBoth(se, os), ks, r, <<>>, 0, 0, "none")

\* TA_CloseSessionEntryPoint of the cipher application
CloseCryptoSession(se, os, ks, r, s) ==
    IF FreeBothPanics(se, os)
       \/ (se.initialized /\ se.key_handle # TEE_HANDLE_NULL
                          /\ ~IsKeyObj(ks, se.key_handle))
    THEN CPanic(s, os, ks, r, 0)
    ELSE COutcome("TEE_SUCCESS", ClosedCryptoSession, FreeBoth(se, os),
                  IF se.initialized /\ se.key_handle # TEE_HANDLE_NULL
                  THEN TEE_FreeTransientObject(ks, se.key_handle) ELSE ks,
                  r, <<>>, 0, 0, "none")

---------------------------------------------------------------------------
(* Commands: the client's inputs and TA_InvokeCommandEntryPoint's dispatch *)

\* chunk payloads a client sends: empty, one byte, a full chunk, one too large
Chunks == {<<>>, BFill(1, 1), BFill(2, CHUNK_SIZE), BFill(1, CHUNK_SIZE + 1)}

\* The payloads sent for each identifier: every payload for the first, and
\* only the one-byte payload for the second (an object beside the one under
\* test: it keeps the store small).
Payloads(id) == IF id = "obj1" THEN Chunks ELSE {BFill(1, 1)}

\* a client's output buffers for READ are filled with 0, which no payload
\* holds; their sizes: 0, 1, exactly the object's size, larger than any object
BigBuffer == MaxChunks * CHUNK_SIZE + 1

\* Inputs of the commands. A command with the wrong parameter types, or one
\* that meets a failing TEE_Malloc, is rejected before it looks at anything
\* else, so one representative of each is enough; an injected primitive
\* failure does not depend on the payload, so it comes with one payload.
ChunkInputs ==
    UNION {{[id |-> i, data |-> d, is_first |-> f, ptOk |-> TRUE,
              inj |-> "none"] : d \in Payloads(i), f \in {0, 1}} : i \in Ids}
      \cup {[id |-> i, data |-> BFill(1, 1), is_first |-> f, ptOk |-> TRUE,
             inj |-> j] : i \in Ids, f \in {0, 1}, j \in {"create", "write"}}
      \cup {[id |-> "obj1", data |-> <<>>, is_first |-> f, ptOk |-> FALSE,
             inj |-> "none"] : f \in {0, 1}}
      \cup {[id |-> "obj1", data |-> <<>>, is_first |-> f, ptOk |-> TRUE,
             inj |-> "malloc"] : f \in {0, 1}}

RawInputs ==
    UNION {{[id |-> i, data |-> d, ptOk |-> TRUE, inj |-> "none"] :
               d \in Payloads(i)} : i \in Ids}
      \cup {[id |-> i, data |-> BFill(1, 1), ptOk |-> TRUE, inj |-> j] :
              i \in Ids, j \in {"create", "write"}}
      \cup {[id |-> "obj1", data |-> <<>>, ptOk |-> FALSE, inj |-> "none"],
            [id |-> "obj1", data |-> <<>>, ptOk |-> TRUE, inj |-> "malloc"]}

DeleteInputs ==
    {[id |-> i, ptOk |-> TRUE, inj |-> "none"] : i \in Ids}
      \cup {[id |-> "obj1", ptOk |-> FALSE, inj |-> "none"],
            [id |-> "obj1", ptOk |-> TRUE, inj |-> "malloc"]}

NoFault == [kind |-> "none", at |-> 0]
ReadFaults ==
    {[kind |-> "info", at |-> 0]}
      \cup {[kind |-> k, at |-> a] : k \in {"read_err", "read_short"},
                                     a \in 1..MaxChunks}

ReadInputs ==
    UNION {{[id |-> i, n |-> n, ptOk |-> TRUE, inj |-> NoFault] :
               n \in {0, 1, BLen(store[i].data), BigBuffer}} : i \in Ids}
      \cup {[id |-> i, n |-> BigBuffer, ptOk |-> TRUE, inj |-> j] :
              i \in Ids, j \in ReadFaults}
      \cup {[id |-> "obj1", n |-> 0, ptOk |-> FALSE, inj |-> NoFault],
            [id |-> "obj1", n |-> 0, ptOk |-> TRUE,
             inj |-> [kind |-> "malloc", at |-> 0]]}

\* The record of the last command: which, its result, and the injected
\* primitive failure it met.
Last(cmd, res, fault) == [cmd |-> cmd, res |-> res, fault |-> fault]

\* What a panic in session s leaves of the sessions and of the handle table.
\* Sessions are fully isolated from each other (no shared mutable session
\* data): the panic ends session s, with the handles opened for it, and no
\* other session.
SessionsBeside(s) == [sess EXCEPT ![s] = ClosedSession]

HandlesBeside(s) ==
    [h \in HandleIds |->
        IF handles[h].owner = s THEN ClosedHandle ELSE handles[h]]

\* one session struct that every open session shares
Apply_Shared(s, o) ==
    /\ store' = o.store
    /\ handles' = IF o.panic THEN HandlesBeside(s) ELSE o.handles
    /\ sess' = IF o.panic THEN SessionsBeside(s)
               ELSE [x \in Sessions |-> IF sess[x].open /\ o.se.open
                                        THEN o.se ELSE sess[x]]

\* the state a command leaves
Apply(s, o) ==
    /\ store' = o.store
    /\ handles' = IF o.panic THEN HandlesBeside(s) ELSE o.handles
    /\ sess' = IF o.panic THEN SessionsBeside(s)
               ELSE [sess EXCEPT ![s] = o.se]

\* no session of either application, no object, no engine
NoSessions ==
    /\ store = [i \in Ids |-> Absent]
    /\ handles = [h \in HandleIds |-> ClosedHandle]
    /\ sess = [s \in Sessions |-> ClosedSession]
    /\ stream = [s \in Sessions |-> NoStream]
    /\ last = Last("NONE", "TEE_SUCCESS", "none")
    /\ csess = [s \in Sessions |-> ClosedCryptoSession]
    /\ ops = [h \in OpIds |-> FreeOp]
    /\ kobjs = [h \in KeyObjIds |-> FreeKeyObj]
    /\ rng = 0
    /\ cout = [s \in Sessions |-> NoData]
    /\ cfirst = [s \in Sessions |-> FALSE]
    /\ clast = Last("NONE", "TEE_SUCCESS", "none")

\* the host has no buffer to pad
NoHost == [pc |-> "none"]

Init == NoSessions /\ host = NoHost

\* TA_OpenSessionEntryPoint
OpenSession(s) ==
    /\ ~sess[s].open
    /\ \E fail \in BOOLEAN :
         /\ sess' = IF fail THEN sess ELSE [sess EXCEPT ![s] = NewSession]
         /\ last' = Last("OPEN_SESSION",
                         IF fail THEN "TEE_ERROR_OUT_OF_MEMORY" ELSE "TEE_SUCCESS",
                         IF fail THEN "malloc" ELSE "none")
    /\ UNCHANGED <<store, handles, stream>>
    /\ UNCHANGED <<cvars, host>>

\* TA_CloseSessionEntryPoint
TA_CloseSessionEntryPoint(st, hs, se) ==
    IF se.in_progress /\ se.object # TEE_HANDLE_NULL
                      /\ ~IsOpenHandle(hs, se.object)
    THEN Panic(st)
    ELSE Outcome("TEE_SUCCESS", st,
                 IF se.in_progress THEN TEE_CloseObject(hs, se.object) ELSE hs,
                 ClosedSession, "none")

CloseSession(s) ==
    /\ sess[s].open
    /\ LET o == TA_CloseSessionEntryPoint(store, handles, sess[s])
       IN  /\ Apply(s, o)
           /\ stream' = [stream EXCEPT ![s] = NoStream]
           /\ last' = Last("CLOSE_SESSION", o.res, "none")
    /\ UNCHANGED <<cvars, host>>

\* TA_SECURE_STORAGE_CMD_WRITE_RAW_CHUNK, with an input out of inputs
WriteChunkWith(s, inputs) ==
    /\ sess[s].open
    /\ \E in \in inputs :
         /\ in.is_first # 0 => HasFreeHandle(handles)
         /\ in.is_first = 0 /\ sess[s].in_progress
                => stream[s].n < MaxChunks
         /\ LET o == write_raw_chunk(store, handles, sess[s], s, in.id,
                                     in.data, in.is_first, in.ptOk, in.inj)
                began == o.res = "TEE_SUCCESS" /\ in.is_first # 0
            IN  /\ Apply(s, o)
                /\ stream' =
                     IF o.panic THEN [stream EXCEPT ![s] = NoStream]
                     ELSE IF began
                     THEN [stream EXCEPT ![s] =
                              [id |-> in.id, sent |-> in.data, n |-> 1]]
                     ELSE IF o.res = "TEE_SUCCESS"
                     THEN [stream EXCEPT ![s].sent = BCat(@, in.data),
                                         ![s].n = @ + 1]
                     ELSE IF o.se.in_progress
                     THEN stream
                     ELSE [stream EXCEPT ![s] = NoStream]
                /\ last' = Last("WRITE_CHUNK", o.res, o.fault)
    /\ UNCHANGED <<cvars, host>>

WriteChunk(s) == WriteChunkWith(s, ChunkInputs)

\* TA_SECURE_STORAGE_CMD_WRITE_RAW_FINAL
WriteFinal(s) ==
    /\ sess[s].open
    /\ LET o == write_raw_final(store, handles, sess[s])
       IN  /\ Apply(s, o)
           /\ stream' = [stream EXCEPT ![s] = NoStream]
           /\ last' = Last("WRITE_FINAL", o.res, o.fault)
    /\ UNCHANGED <<cvars, host>>

\* TA_SECURE_STORAGE_CMD_READ_RAW, with an input out of inputs
ReadWith(s, inputs) ==
    /\ sess[s].open
    /\ HasFreeHandle(handles)
    /\ \E in \in inputs :
         LET buf == BFill(0, in.n)
             o == read_raw_object(store, handles, s, in.id, buf, in.ptOk, in.inj)
         IN  /\ handles' = o.handles
             /\ last' = Last("READ", o.res, o.fault)
    /\ UNCHANGED <<store, sess, stream>>
    /\ UNCHANGED <<cvars, host>>

Read(s) == ReadWith(s, ReadInputs)

\* TA_SECURE_STORAGE_CMD_DELETE
Delete(s) ==
    /\ sess[s].open
    /\ HasFreeHandle(handles)
    /\ \E in \in DeleteInputs :
         LET o == delete_object(store, handles, sess[s], s, in.id, in.ptOk, in.inj)
         IN  /\ Apply(s, o)
             /\ last' = Last("DELETE", o.res, o.fault)
    /\ UNCHANGED stream
    /\ UNCHANGED <<cvars, host>>

\* TA_SECURE_STORAGE_CMD_WRITE_RAW, with an input out of inputs
WriteRawWith(s, inputs) ==
    /\ sess[s].open
    /\ HasFreeHandle(handles)
    /\ \E in \in inputs :
         LET o == create_raw_object(store, handles, sess[s], s, in.id, in.data,
                                   in.ptOk, in.inj)
         IN  /\ Apply(s, o)
             /\ last' = Last("WRITE", o.res, o.fault)
    /\ UNCHANGED stream
    /\ UNCHANGED <<cvars, host>>

WriteRaw(s) == WriteRawWith(s, RawInputs)

\* the sessions a client of the main specification opens
Clients == {1}

Next ==
    \E s \in Clients :
        \/ OpenSession(s)
        \/ CloseSession(s)
        \/ WriteChunk(s)
        \/ WriteFinal(s)
        \/ Read(s)
        \/ Delete(s)
        \/ WriteRaw(s)

Spec == Init /\ [][Next]_vars

---------------------------------------------------------------------------
(* Commands of the cipher application *)

\* microseconds one cipher call is measured to take
ElapsedUs == {0, 1500}

OneBlock == CData(<<PlainBlock(1)>>, 0)
HalfBlock == CData(<<>>, 8)
\* CHUNK_SIZE bytes and one block more
OverChunk ==
    CData([i \in 1..(CHUNK_SIZE \div AES_BLOCK_SIZE + 1) |-> PlainBlock(0)], 0)

\* Inputs of ENCRYPT_CHUNK and DECRYPT_CHUNK. The output buffer is as large
\* as the input unless said otherwise; a fault comes with a first chunk of
\* one block, where the initialisation can meet it. The key is a transient
\* object, for which TEE_SetOperationKey has no error to return, so that
\* fault is left to the properties that quantify over it.
CipherInput(data, out_sz, is_first, us, ptOk, inj) ==
    [data |-> data, out_sz |-> out_sz, is_first |-> is_first, us |-> us,
     ptOk |-> ptOk, inj |-> inj]

EncryptInputs ==
    {CipherInput(OneBlock, CLen(OneBlock), f, us, TRUE, "none") :
        f \in {0, 1}, us \in ElapsedUs}
      \cup {CipherInput(d, CLen(d), f, 0, TRUE, "none") :
              d \in {HalfBlock, OverChunk}, f \in {0, 1}}
      \cup {CipherInput(OneBlock, CLen(OneBlock), 1, 0, TRUE, j) :
              j \in {"key_alloc", "key_populate", "op_alloc"}}
      \cup {CipherInput(OneBlock, 0, 1, 0, TRUE, "none"),
            CipherInput(OneBlock, CLen(OneBlock), 1, 0, FALSE, "none")}

\* ciphertext a client has got from a session, and a block that is none
DecryptInputs ==
    {CipherInput(d, CLen(d), f, us, TRUE, "none") :
        d \in {cout[x] : x \in Sessions} \cup {OneBlock},
        f \in {0, 1}, us \in ElapsedUs}
      \cup {CipherInput(OverChunk, CLen(OverChunk), f, 0, TRUE, "none") :
              f \in {0, 1}}
      \cup {CipherInput(OneBlock, CLen(OneBlock), 1, 0, TRUE, "op_alloc")}
      \cup {CipherInput(OneBlock, 0, 1, 0, TRUE, "none"),
            CipherInput(OneBlock, CLen(OneBlock), 1, 0, FALSE, "none")}

\* An operation whose handle no session holds any more (a first chunk
\* overwrote the handle) stays allocated; nothing can reach its cipher state,
\* which is therefore not kept.
Unreachable(os, cs) ==
    [h \in OpIds |->
        IF os[h].alloc
           /\ \A x \in Sessions : cs[x].enc_op # h /\ cs[x].dec_op # h
        THEN [FreeOp EXCEPT !.alloc = TRUE, !.owner = os[h].owner]
        ELSE os[h]]

\* the state a cipher command leaves
CApply(s, o) ==
    LET cs == [csess EXCEPT ![s] = o.se]
    IN  /\ csess' = cs
        /\ ops' = Unreachable(o.ops, cs)
        /\ kobjs' = o.kobjs
        /\ rng' = o.rng

\* TA_OpenSessionEntryPoint of the cipher application
CryptoOpenSession(s) ==
    /\ ~csess[s].open
    /\ \E fail \in BOOLEAN :
         /\ csess' = IF fail THEN csess
                     ELSE [csess EXCEPT ![s] = NewCryptoSession]
         /\ clast' = Last("OPEN_SESSION",
                          IF fail THEN "TEE_ERROR_OUT_OF_MEMORY" ELSE "TEE_SUCCESS",
                          IF fail THEN "malloc" ELSE "none")
         /\ cfirst' = IF fail THEN cfirst ELSE [cfirst EXCEPT ![s] = FALSE]
    /\ UNCHANGED <<ops, kobjs, rng, cout>>
    /\ UNCHANGED <<svars, host>>

\* TA_CloseSessionEntryPoint of the cipher application
CryptoCloseSession(s) ==
    /\ csess[s].open
    /\ LET o == CloseCryptoSession(csess[s], ops, kobjs, rng, s)
       IN  /\ CApply(s, o)
           /\ clast' = Last("CLOSE_SESSION", o.res, "none")
    /\ UNCHANGED <<cout, cfirst>>
    /\ UNCHANGED <<svars, host>>

\* TA_SECURE_STORAGE_CMD_ENCRYPT_CHUNK with one of the given inputs
EncryptWith(s, inputs) ==
    /\ csess[s].open
    /\ \E in \in inputs :
         /\ (in.is_first # 0 /\ ~csess[s].initialized) => rng + 2 <= MaxRandom
         /\ (in.is_first = 0 /\ IsOp(ops, csess[s].enc_op)) =>
                Len(ops[csess[s].enc_op].pre) + Len(in.data.blocks) <= MaxBlocks
         /\ csess[s].total_enc_time_us + in.us <= MaxTimeUs
         /\ LET o == encrypt_chunk(csess[s], ops, kobjs, rng, s, in.data,
                                   in.out_sz, in.is_first, in.us, in.ptOk,
                                   in.inj)
            IN  /\ CApply(s, o)
                /\ cout' = IF o.res = "TEE_SUCCESS"
                           THEN [cout EXCEPT ![s] = CData(o.out, 0)]
                           ELSE cout
                /\ cfirst' = IF o.res = "TEE_SUCCESS" /\ in.is_first # 0
                             THEN [cfirst EXCEPT ![s] = TRUE]
                             ELSE cfirst
                /\ clast' = Last("ENCRYPT_CHUNK", o.res, o.fault)
    /\ UNCHANGED <<svars, host>>

EncryptChunk(s) == EncryptWith(s, EncryptInputs)

\* TA_SECURE_STORAGE_CMD_DECRYPT_CHUNK with one of the given inputs
DecryptWith(s, inputs) ==
    /\ csess[s].open
    /\ \E in \in inputs :
         /\ csess[s].total_dec_time_us + in.us <= MaxTimeUs
         /\ LET o == decrypt_chunk(csess[s], ops, kobjs, rng, s, in.data,
                                   in.out_sz, in.is_first, in.us, in.ptOk,
                                   in.inj)
            IN  /\ CApply(s, o)
                /\ clast' = Last("DECRYPT_CHUNK", o.res, o.fault)
    /\ UNCHANGED <<cout, cfirst>>
    /\ UNCHANGED <<svars, host>>

DecryptChunk(s) == DecryptWith(s, DecryptInputs)

\* TA_SECURE_STORAGE_CMD_FINALIZE, the parameter types right or not
FinalizeWith(s, oks) ==
    /\ csess[s].open
    /\ \E ptOk \in oks :
         LET o == finalize_operation(csess[s], ptOk)
         IN  clast' = Last("FINALIZE", o.res,
                           IF ptOk THEN "none" ELSE "param_types")
    /\ UNCHANGED <<csess, ops, kobjs, rng, cout, cfirst>>
    /\ UNCHANGED <<svars, host>>

Finalize(s) == FinalizeWith(s, BOOLEAN)

\* TA_SECURE_STORAGE_CMD_RESET
Reset(s) ==
    /\ csess[s].open
    /\ LET o == reset_session(csess[s], ops, kobjs, rng, s)
       IN  /\ CApply(s, o)
           /\ clast' = Last("RESET", o.res, o.fault)
    /\ UNCHANGED <<cout, cfirst>>
    /\ UNCHANGED <<svars, host>>

\* one client of the cipher application, with every input above
CryptoClients == {1}

CryptoNext ==
    \E s \in CryptoClients :
        \/ CryptoOpenSession(s)
        \/ CryptoCloseSession(s)
        \/ EncryptChunk(s)
        \/ DecryptChunk(s)
        \/ Finalize(s)
        \/ Reset(s)

CryptoSpec == Init /\ [][CryptoNext]_vars

\* Two clients with a session each, which encrypt streams of one block and
\* decrypt, as first chunk or continuation, the ciphertext either of them got.
PairClients == {1, 2}

PairEncryptInputs ==
    {CipherInput(OneBlock, CLen(OneBlock), 1, 0, TRUE, "none")}

PairDecryptInputs ==
    {CipherInput(d, CLen(d), f, 0, TRUE, "none") :
        d \in {cout[x] : x \in Sessions} \ {NoData}, f \in {0, 1}}

PairEncryptChunk(s) == EncryptWith(s, PairEncryptInputs)

PairDecryptChunk(s) == DecryptWith(s, PairDecryptInputs)

PairFinalize(s) == FinalizeWith(s, {TRUE})

PairNext ==
    \E s \in PairClients :
        \/ CryptoOpenSession(s)
        \/ CryptoCloseSession(s)
        \/ PairEncryptChunk(s)
        \/ PairDecryptChunk(s)
        \/ PairFinalize(s)
        \/ Reset(s)

PairSpec == Init /\ [][PairNext]_vars

\* A client of either application that meets failing primitives: the host
\* programs open a session with one of the two trusted applications and send
\* it that application's commands, here with one-byte and one-block payloads
\* and with every failure of a store or cipher primitive. The first command
\* decides which application the behaviour is about.
FaultyChunkInputs ==
    {[id |-> i, data |-> BFill(1, 1), is_first |-> f, ptOk |-> TRUE,
      inj |-> j] : i \in Ids, f \in {0, 1}, j \in {"none", "create", "write"}}

FaultyReadInputs ==
    {[id |-> i, n |-> BigBuffer, ptOk |-> TRUE, inj |-> j] :
        i \in Ids, j \in {NoFault} \cup ReadFaults}

FaultyRawInputs ==
    {[id |-> i, data |-> BFill(1, 1), ptOk |-> TRUE, inj |-> j] :
        i \in Ids, j \in {"none", "create", "write"}}

FaultyEncryptInputs ==
    {CipherInput(OneBlock, CLen(OneBlock), f, 0, TRUE, j) :
        f \in {0, 1}, j \in {"none", "key_alloc", "key_populate", "op_alloc"}}
      \cup {CipherInput(OneBlock, 0, f, 0, TRUE, "none") : f \in {0, 1}}

FaultyDecryptInputs ==
    {CipherInput(OneBlock, CLen(OneBlock), f, 0, TRUE, j) :
        f \in {0, 1}, j \in {"none", "op_alloc"}}
      \cup {CipherInput(OneBlock, 0, f, 0, TRUE, "none") : f \in {0, 1}}

FaultyWriteChunk(s) == WriteChunkWith(s, FaultyChunkInputs)

FaultyRead(s) == ReadWith(s, FaultyReadInputs)

FaultyWriteRaw(s) == WriteRawWith(s, FaultyRawInputs)

FaultyEncryptChunk(s) == EncryptWith(s, FaultyEncryptInputs)

FaultyDecryptChunk(s) == DecryptWith(s, FaultyDecryptInputs)

\* no command has been sent to the cipher application, or to the storage one
CipherUnused == clast.cmd = "NONE"

StorageUnused == last.cmd = "NONE"

FaultNext ==
    \/ CipherUnused /\ OpenSession(1)
    \/ CipherUnused /\ CloseSession(1)
    \/ CipherUnused /\ FaultyWriteChunk(1)
    \/ CipherUnused /\ WriteFinal(1)
    \/ CipherUnused /\ FaultyRead(1)
    \/ CipherUnused /\ Delete(1)
    \/ CipherUnused /\ FaultyWriteRaw(1)
    \/ StorageUnused /\ CryptoOpenSession(1)
    \/ StorageUnused /\ CryptoCloseSession(1)
    \/ StorageUnused /\ FaultyEncryptChunk(1)
    \/ StorageUnused /\ FaultyDecryptChunk(1)

FaultSpec == Init /\ [][FaultNext]_vars

\* Two clients of either application, each with a session of its own, which
\* send one-byte and one-block payloads and meet no failing primitive.
PairChunkInputs ==
    {[id |-> i, data |-> BFill(1, 1), is_first |-> f, ptOk |-> TRUE,
      inj |-> "none"] : i \in Ids, f \in {0, 1}}

PairReadInputs ==
    {[id |-> i, n |-> BigBuffer, ptOk |-> TRUE, inj |-> NoFault] : i \in Ids}

PairWriteChunk(s) == WriteChunkWith(s, PairChunkInputs)

PairRead(s) == ReadWith(s, PairReadInputs)

IsolationNext ==
    \E s \in PairClients :
        \/ CipherUnused /\ OpenSession(s)
        \/ CipherUnused /\ CloseSession(s)
        \/ CipherUnused /\ PairWriteChunk(s)
        \/ CipherUnused /\ WriteFinal(s)
        \/ CipherUnused /\ PairRead(s)
        \/ CipherUnused /\ Delete(s)
        \/ StorageUnused /\ CryptoOpenSession(s)
        \/ StorageUnused /\ CryptoCloseSession(s)
        \/ StorageUnused /\ PairEncryptChunk(s)
        \/ StorageUnused /\ PairDecryptChunk(s)
        \/ StorageUnused /\ PairFinalize(s)
        \/ StorageUnused /\ Reset(s)

IsolationSpec == Init /\ [][IsolationNext]_vars

---------------------------------------------------------------------------
(* The host programs: the procedures a client runs on top of the commands *)

\* write_secure_object_chunked, the while loop from offset on: one
\* WRITE_CHUNK for each CHUNK_SIZE bytes of data and one for what is left,
\* left at the first command that fails. fail_at numbers the chunk command
\* whose append the store refuses (0: none). sent is the commands sent in
\* order. [res, store, handles, se, fault, panic, sent]
RECURSIVE HostWriteLoop(_, _, _, _, _, _, _, _, _)
HostWriteLoop(st, hs, se, s, id, data, offset, is_first, fail_at) ==
    IF ~(offset < BLen(data))
    THEN [res |-> "TEE_SUCCESS", store |-> st, handles |-> hs, se |-> se,
          fault |-> "none", panic |-> FALSE, sent |-> <<>>]
    ELSE LET chunk_size == IF BLen(data) - offset > CHUNK_SIZE
                           THEN CHUNK_SIZE ELSE BLen(data) - offset
             o == write_raw_chunk(st, hs, se, s, id,
                                  BTake(BDrop(data, offset), chunk_size),
                                  is_first, TRUE,
                                  IF fail_at = (offset \div CHUNK_SIZE) + 1
                                  THEN "write" ELSE "none")
             this == <<[cmd |-> "WRITE_CHUNK", off |-> offset,
                        size |-> chunk_size, is_first |-> is_first,
                        res |-> o.res]>>
             r == HostWriteLoop(o.store, o.handles, o.se, s, id, data,
                                offset + chunk_size, 0, fail_at)
         IN  IF o.res # "TEE_SUCCESS"
             THEN [res |-> o.res, store |-> o.store, handles |-> o.handles,
                   se |-> o.se, fault |-> o.fault, panic |-> o.panic,
                   sent |-> this]
             ELSE [r EXCEPT !.sent = this \o @]

\* a procedure that sends WRITE_FINAL whatever the chunk commands returned
write_secure_object_chunked_AlwaysFinal(st, hs, se, s, id, data, fail_at) ==
    LET w == HostWriteLoop(st, hs, se, s, id, data, 0, 1, fail_at)
        f == write_raw_final(w.store, w.handles, w.se)
    IN  [res |-> f.res, store |-> f.store, handles |-> f.handles,
         se |-> f.se, fault |-> f.fault, panic |-> f.panic,
         sent |-> w.sent \o <<[cmd |-> "WRITE_FINAL", res |-> f.res]>>]

\* write_secure_object_chunked: the chunk commands, then WRITE_FINAL
write_secure_object_chunked(st, hs, se, s, id, data, fail_at) ==
    LET w == HostWriteLoop(st, hs, se, s, id, data, 0, 1, fail_at)
        f == write_raw_final(w.store, w.handles, w.se)
    IN  IF w.res # "TEE_SUCCESS" THEN w
        ELSE [res |-> f.res, store |-> f.store, handles |-> f.handles,
              se |-> f.se, fault |-> f.fault, panic |-> f.panic,
              sent |-> w.sent \o <<[cmd |-> "WRITE_FINAL", res |-> f.res]>>]

\* A file of the host: whole 16-byte blocks, then the bytes that do not fill
\* a block (part = <<v, t>>: the t bytes v, 0 < t < 16; <<>> when there are
\* none). An encrypted file is the 8-byte header with the original length,
\* then ciphertext blocks.
HostFile(blocks, part) == [blocks |-> blocks, part |-> part]

FileLen(f) ==
    AES_BLOCK_SIZE * Len(f.blocks) + (IF f.part = <<>> THEN 0 ELSE f.part[2])

\* pad_data on the last bytes of a chunk: the block made of the t bytes of
\* part followed by 16 - t bytes of value 16 - t
PaddedBlock(part) == PlainBlock(<<"padded", part[1], part[2]>>)

\* the first k bytes of plaintext block b, 0 < k < 16: the bytes that were
\* padded when b is a padded block of k bytes, other bytes otherwise
BlockPrefix(b, k) ==
    IF b[1] = "p" /\ Len(b[2]) = 3 /\ b[2][1] = "padded" /\ b[2][3] = k
    THEN <<b[2][2], k>>
    ELSE <<(<<"cut", b>>), k>>

\* blocks in one read of CHUNK_SIZE bytes
ChunkBlocks == CHUNK_SIZE \div AES_BLOCK_SIZE

\* encrypt_file, "Process file in chunks": the file from byte offset on, one
\* ENCRYPT_CHUNK for each read of CHUNK_SIZE bytes, the last one padded when
\* it is not a multiple of the block size. acc is a CipherRun state.
RECURSIVE EncryptFileLoop(_, _, _, _, _)
EncryptFileLoop(s, f, offset, is_first, acc) ==
    LET left == FileLen(f) - offset
        bytes_read == IF left > CHUNK_SIZE THEN CHUNK_SIZE ELSE left
        from == offset \div AES_BLOCK_SIZE
        plain_buf == SubSeq(f.blocks, from + 1,
                            from + (bytes_read \div AES_BLOCK_SIZE))
                       \o (IF bytes_read % AES_BLOCK_SIZE # 0
                           THEN <<PaddedBlock(f.part)>> ELSE <<>>)
        o == encrypt_chunk(acc.se, acc.ops, acc.kobjs, acc.rng, s,
                           CData(plain_buf, 0), CHUNK_SIZE + AES_BLOCK_SIZE,
                           is_first, 0, TRUE, "none")
        next == [se |-> o.se, ops |-> o.ops, kobjs |-> o.kobjs,
                 rng |-> o.rng, out |-> acc.out \o o.out,
                 ok |-> o.res = "TEE_SUCCESS"]
    IN  IF ~(bytes_read > 0) THEN acc
        ELSE IF o.res # "TEE_SUCCESS" THEN next
        ELSE EncryptFileLoop(s, f, offset + bytes_read, 0, next)

\* encrypt_file: [header, cipher] is the output file; state what it leaves
encrypt_file(s, f, st) ==
    LET r == EncryptFileLoop(s, f, 0, 1, [st EXCEPT !.out = <<>>])
    IN  [ok |-> r.ok, header |-> FileLen(f), cipher |-> r.out, state |-> r]

\* a decrypt_file that writes all that each command returns
ToWrite_Uncapped(total_written, decrypted_size, original_size) ==
    decrypted_size

\* decrypt_file, "Write only up to original file size"
ToWrite(total_written, decrypted_size, original_size) ==
    IF total_written + decrypted_size > original_size
    THEN original_size - total_written
    ELSE decrypted_size

\* decrypt_file, "Process file in chunks": the ciphertext from block `from`
\* on, one DECRYPT_CHUNK for each read of CHUNK_SIZE bytes; of each output
\* only the bytes up to original_size are written. acc.out is the output
\* file so far, written its number of bytes.
RECURSIVE DecryptFileLoop(_, _, _, _, _, _, _)
DecryptFileLoop(s, cipher, original_size, from, is_first, written, acc) ==
    LET left == Len(cipher) - from + 1
        n == IF left > ChunkBlocks THEN ChunkBlocks ELSE left
        o == decrypt_chunk(acc.se, acc.ops, acc.kobjs, acc.rng, s,
                           CData(SubSeq(cipher, from, from + n - 1), 0),
                           CHUNK_SIZE + AES_BLOCK_SIZE, is_first, 0, TRUE,
                           "none")
        decrypted_size == o.out_len
        to_write == ToWrite(written, decrypted_size, original_size)
        k == to_write \div AES_BLOCK_SIZE
        rest == to_write % AES_BLOCK_SIZE
        file == HostFile(acc.out.blocks \o SubSeq(o.out, 1, k),
                         IF rest = 0 THEN acc.out.part
                         ELSE BlockPrefix(o.out[k + 1], rest))
        next == [se |-> o.se, ops |-> o.ops, kobjs |-> o.kobjs,
                 rng |-> o.rng,
                 out |-> IF o.res = "TEE_SUCCESS" THEN file ELSE acc.out,
                 ok |-> o.res = "TEE_SUCCESS"]
    IN  IF ~(n > 0) THEN acc
        ELSE IF o.res # "TEE_SUCCESS" THEN next
        ELSE IF written + to_write >= original_size THEN next
        ELSE DecryptFileLoop(s, cipher, original_size, from + n, 0,
                             written + to_write, next)

\* decrypt_file of the encrypted file e: the output file
decrypt_file(s, e, st) ==
    DecryptFileLoop(s, e.cipher, e.header, 1, 1, 0,
                    [st EXCEPT !.out = HostFile(<<>>, <<>>)])

---------------------------------------------------------------------------
(* The padding helpers of the host program *)

\* A buffer of the host is the sequence of its bytes. pad_data: the value
\* returned and the buffer afterwards; nothing is written when the padded
\* data would not fit in buffer_size bytes.
pad_data_NoneWhenAligned(data, data_len, buffer_size) ==
    LET padding_len ==
            (AES_BLOCK_SIZE - (data_len % AES_BLOCK_SIZE)) % AES_BLOCK_SIZE
    IN  IF data_len + padding_len > buffer_size
        THEN [ret |-> 0, data |-> data]
        ELSE [ret |-> data_len + padding_len,
              data |-> [i \in 1..Len(data) |->
                           IF i > data_len /\ i <= data_len + padding_len
                           THEN padding_len ELSE data[i]]]

pad_data(data, data_len, buffer_size) ==
    LET padding_len == AES_BLOCK_SIZE - (data_len % AES_BLOCK_SIZE)
    IN  IF data_len + padding_len > buffer_size
        THEN [ret |-> 0, data |-> data]
        ELSE [ret |-> data_len + padding_len,
              data |-> [i \in 1..Len(data) |->
                           IF i > data_len /\ i <= data_len + padding_len
                           THEN padding_len % 256 ELSE data[i]]]

\* unpad_data: the length without the padding, or data_len itself when the
\* last byte is no padding length or the bytes it counts are not all equal
\* to it. With padding_len > data_len the loop's start index wraps, the loop
\* runs no round and the difference returned wraps as well: it is kept here
\* as the negative number data_len - padding_len.
unpad_data(data, data_len) ==
    IF data_len = 0 THEN 0
    ELSE LET padding_len == data[data_len]
         IN  IF padding_len = 0 \/ padding_len > AES_BLOCK_SIZE
             THEN data_len
             ELSE IF /\ padding_len <= data_len
                     /\ \E i \in (data_len - padding_len + 1)..data_len :
                            data[i] # padding_len
                  THEN data_len
                  ELSE data_len - padding_len

\* The buffers the host pads: n bytes of data, n up to MaxData, whose last
\* two bytes and whose other bytes are drawn from the values a padding byte
\* can take and from others, in a buffer with room for all, part or none of
\* the padding, the bytes after the data holding what was there before.
MaxData == 33

ByteValues == {0, 1, 2, 15, 16, 255}

HostData(n, c, a, b, stale, size) ==
    [i \in 1..size |-> IF i > n THEN stale
                       ELSE IF i = n THEN b
                       ELSE IF i = n - 1 THEN a ELSE c]

HostBuffers ==
    {[pc |-> "read", data |-> HostData(n, c, a, b, stale, n + room),
      data_len |-> n, buffer_size |-> n + room, ret |-> 0, unpadded |-> 0,
      read |-> HostData(n, c, a, b, stale, n + room)] :
        n \in 0..MaxData, c \in {7, 16}, a \in ByteValues, b \in ByteValues,
        stale \in {0, 255}, room \in {0, 15, 16, 17}}

PadInit == NoSessions /\ host \in HostBuffers

\* data_len = pad_data(buffer, data_len, buffer_size)
PadData ==
    /\ host.pc = "read"
    /\ LET r == pad_data(host.data, host.data_len, host.buffer_size)
       IN  host' = [host EXCEPT !.pc = "padded", !.data = r.data,
                                !.ret = r.ret]
    /\ UNCHANGED <<svars, cvars>>

\* unpad_data of what pad_data made
UnpadData ==
    /\ host.pc = "padded"
    /\ host.ret # 0
    /\ host' = [host EXCEPT !.pc = "unpadded",
                            !.unpadded = unpad_data(host.data, host.ret)]
    /\ UNCHANGED <<svars, cvars>>

PadNext == PadData \/ UnpadData

PadSpec == PadInit /\ [][PadNext]_vars

---------------------------------------------------------------------------
(* Properties *)

\* payloads a chunk command accepts
ValidChunks == {d \in Chunks : BLen(d) <= CHUNK_SIZE}

\* a well-formed READ of identifier id with an n-byte buffer, store reliable
ReadOf(st, hs, s, id, n) ==
    read_raw_object(st, hs, s, id, BFill(0, n), TRUE, NoFault)

\* the command changed nothing: store, handle table and session as before
Untouched(o, st, hs, se) ==
    /\ ~o.panic
    /\ o.store = st
    /\ o.handles = hs
    /\ o.se = se

\* C1: after a stream of accepted chunk commands (a first chunk, then
\* continuations) the WRITE_FINAL succeeds, and a READ of the stream's
\* identifier with a buffer at least as large as the object then succeeds,
\* reports the sum of the chunk lengths and delivers the chunks end to end in
\* the order they were sent, leaving the rest of the buffer as it was.
C1_ChunkedRoundTrip ==
    \A s \in Sessions :
        sess[s].open /\ sess[s].in_progress
                     /\ IsOpenHandle(handles, sess[s].object)
        => LET f == write_raw_final(store, handles, sess[s])
               sent == stream[s].sent
           IN  /\ f.res = "TEE_SUCCESS"
               /\ \A n \in {BLen(sent), BLen(sent) + 1, BigBuffer} :
                    LET r == ReadOf(f.store, f.handles, s, stream[s].id, n)
                    IN  /\ r.res = "TEE_SUCCESS"
                        /\ r.size = BLen(sent)
                        /\ BTake(r.out, r.size) = sent
                        /\ BDrop(r.out, r.size) = BFill(0, n - r.size)

\* a stream of two chunks, one byte and then a full chunk, has been accepted
C1_Witness ==
    /\ last.cmd = "WRITE_CHUNK" /\ last.res = "TEE_SUCCESS"
    /\ sess[1].in_progress /\ stream[1].n = 2
    /\ stream[1].sent = <<(<<1, 1>>), (<<2, CHUNK_SIZE>>)>>

\* C2: when the store append inside WRITE_CHUNK fails, on a first chunk or on
\* a continuation, the command returns the store's error, the object being
\* written is gone (a READ of it returns ITEM_NOT_FOUND for every buffer),
\* in_progress is false, and a first chunk on the same session is accepted
\* again: it succeeds for that identifier and is never BAD_STATE.
C2_AppendFailureRollsBack ==
    \A s \in Sessions : sess[s].open =>
        \A id \in Ids, data \in ValidChunks, is_first \in {0, 1} :
            LET o == write_raw_chunk(store, handles, sess[s], s, id, data,
                                     is_first, TRUE, "write")
                target == IF is_first # 0 THEN id
                          ELSE handles[sess[s].object].id
            IN  o.fault = "write" =>
                  /\ o.res = StorageFullError
                  /\ ~o.panic
                  /\ o.se.open /\ ~o.se.in_progress
                  /\ ~o.store[target].present
                  /\ \A n \in {0, 1, BigBuffer} :
                       ReadOf(o.store, o.handles, s, target, n).res
                           = "TEE_ERROR_ITEM_NOT_FOUND"
                  /\ \A i \in Ids, d \in ValidChunks :
                       LET again == write_raw_chunk(o.store, o.handles, o.se,
                                                    s, i, d, 1, TRUE, "none")
                       IN  /\ again.res # "TEE_ERROR_BAD_STATE"
                           /\ i = target => again.res = "TEE_SUCCESS"

\* an append has failed and the write was rolled back
C2_Witness ==
    /\ last.cmd = "WRITE_CHUNK" /\ last.fault = "write"
    /\ last.res = StorageFullError
    /\ sess[1].open /\ ~sess[1].in_progress

\* C3: a continuation chunk (is_first = 0) on a session with no write in
\* progress returns BAD_STATE and changes neither the store, nor the handle
\* table, nor the session, which stays open and idle.
C3_ContinuationWithoutFirst ==
    \A s \in Sessions : sess[s].open /\ ~sess[s].in_progress =>
        \A id \in Ids, data \in ValidChunks, inj \in {"none", "create", "write"} :
            LET o == write_raw_chunk(store, handles, sess[s], s, id, data, 0,
                                     TRUE, inj)
            IN  /\ o.res = "TEE_ERROR_BAD_STATE"
                /\ Untouched(o, store, handles, sess[s])
                /\ o.se.open /\ ~o.se.in_progress

\* a chunk command was refused for the state of the session
C3_Witness ==
    /\ last.cmd = "WRITE_CHUNK" /\ last.res = "TEE_ERROR_BAD_STATE"
    /\ sess[1].open /\ ~sess[1].in_progress

\* WRITE_FINAL on (st, hs, se) is refused with BAD_STATE and changes nothing
FinalRefused(st, hs, se) ==
    LET g == write_raw_final(st, hs, se)
    IN  g.res = "TEE_ERROR_BAD_STATE" /\ Untouched(g, st, hs, se)

\* C4: WRITE_FINAL with no write in progress returns BAD_STATE and changes
\* neither the session nor the store; so does a second WRITE_FINAL right
\* after a successful one, and a WRITE_FINAL after a rolled-back write.
C4_FinalWithoutWrite ==
    \A s \in Sessions : sess[s].open =>
        LET f == write_raw_final(store, handles, sess[s])
        IN  /\ ~sess[s].in_progress => FinalRefused(store, handles, sess[s])
            /\ f.res = "TEE_SUCCESS" => FinalRefused(f.store, f.handles, f.se)
            /\ \A id \in Ids, data \in ValidChunks, is_first \in {0, 1} :
                 LET o == write_raw_chunk(store, handles, sess[s], s, id, data,
                                          is_first, TRUE, "write")
                 IN  o.fault = "write" => FinalRefused(o.store, o.handles, o.se)

\* a WRITE_FINAL was refused for the state of the session
C4_Witness ==
    /\ last.cmd = "WRITE_FINAL" /\ last.res = "TEE_ERROR_BAD_STATE"
    /\ sess[1].open /\ ~sess[1].in_progress

\* buffer sizes around the size of the object stored under id
SizesAround(id) ==
    LET dataSize == BLen(store[id].data)
    IN  {n \in {0, 1, dataSize - 1, dataSize, dataSize + 1, BigBuffer} : n >= 0}

\* no open handle stands in the way of opening id for reading
Readable(hs, id) == ~AccessConflict(hs, id, ReadOpenFlags)

\* C5, as stated: a READ of any object present in the store with a buffer
\* smaller than its dataSize returns SHORT_BUFFER.
C5_AsStated ==
    \A s \in Sessions, id \in Ids :
        sess[s].open /\ store[id].present /\ HasFreeHandle(handles) =>
            \A n \in SizesAround(id) :
                BLen(store[id].data) > n =>
                    ReadOf(store, handles, s, id, n).res = "TEE_ERROR_SHORT_BUFFER"

\* C5: a READ of a present object that no write handle holds open, with a
\* buffer smaller than its dataSize, returns SHORT_BUFFER, sets the output size
\* to exactly dataSize, reads nothing from the store and leaves the output
\* buffer as it was; a READ of any present object with a buffer of at least
\* dataSize never returns SHORT_BUFFER; a READ of a present object that a
\* write handle holds open returns ACCESS_CONFLICT and copies nothing.
C5_SizeNegotiation ==
    \A s \in Sessions, id \in Ids :
        sess[s].open /\ store[id].present /\ HasFreeHandle(handles) =>
            \A n \in SizesAround(id) :
                LET r == ReadOf(store, handles, s, id, n)
                    dataSize == BLen(store[id].data)
                IN  /\ (dataSize > n /\ Readable(handles, id)) =>
                          /\ r.res = "TEE_ERROR_SHORT_BUFFER"
                          /\ r.size = dataSize
                          /\ r.reads = 0
                          /\ r.out = BFill(0, n)
                    /\ dataSize <= n => r.res # "TEE_ERROR_SHORT_BUFFER"
                    /\ ~Readable(handles, id) =>
                          /\ r.res = "TEE_ERROR_ACCESS_CONFLICT"
                          /\ r.handles = handles
                          /\ r.out = BFill(0, n)

\* a READ was answered SHORT_BUFFER for an object longer than one chunk
C5_Witness ==
    /\ last.cmd = "READ" /\ last.res = "TEE_ERROR_SHORT_BUFFER"
    /\ \E id \in Ids : store[id].present /\ BLen(store[id].data) > CHUNK_SIZE

\* C6: whenever a READ is answered SHORT_BUFFER, the store and the handle
\* table are as before, so the same READ repeated any number of times reports
\* the same required size; and the READ that follows with a buffer of
\* exactly the reported size succeeds with output size equal to it.
C6_NegotiationIdempotent ==
    \A s \in Sessions, id \in Ids :
        sess[s].open /\ store[id].present /\ HasFreeHandle(handles) =>
            \A n \in SizesAround(id) :
                LET r1 == ReadOf(store, handles, s, id, n)
                    r2 == ReadOf(store, r1.handles, s, id, n)
                    r3 == ReadOf(store, r2.handles, s, id, r2.size)
                IN  r1.res = "TEE_ERROR_SHORT_BUFFER" =>
                      /\ r1.handles = handles
                      /\ r2 = r1
                      /\ r1.size = BLen(store[id].data)
                      /\ r3.res = "TEE_SUCCESS"
                      /\ r3.size = r1.size
                      /\ r3.handles = handles

\* a READ was answered SHORT_BUFFER while the session had no write in progress
C6_Witness ==
    /\ last.cmd = "READ" /\ last.res = "TEE_ERROR_SHORT_BUFFER"
    /\ sess[1].open /\ ~sess[1].in_progress

\* C7: a READ of an identifier that is not in the store returns
\* ITEM_NOT_FOUND for every buffer size, whatever the store's reads would
\* do, and leaves the store, the handle table, the session and the output
\* buffer as they were.
C7_ReadAbsent ==
    \A s \in Sessions, id \in Ids :
        sess[s].open /\ ~store[id].present =>
            \A n \in {0, 1, CHUNK_SIZE, BigBuffer}, inj \in {NoFault} \cup ReadFaults :
                LET r == read_raw_object(store, handles, s, id, BFill(0, n),
                                         TRUE, inj)
                IN  /\ r.res = "TEE_ERROR_ITEM_NOT_FOUND"
                    /\ r.handles = handles
                    /\ r.out = BFill(0, n) /\ r.size = n

\* a READ was answered ITEM_NOT_FOUND
C7_Witness ==
    /\ last.cmd = "READ" /\ last.res = "TEE_ERROR_ITEM_NOT_FOUND"
    /\ \E id \in Ids : ~store[id].present

\* a well-formed DELETE of identifier id by session s
DeleteOf(s, id) ==
    delete_object(store, handles, sess[s], s, id, TRUE, "none")

\* C8, as stated: a DELETE of any identifier present in the store returns
\* success.
C8_AsStated ==
    \A s \in Sessions, id \in Ids :
        sess[s].open /\ store[id].present /\ HasFreeHandle(handles) =>
            DeleteOf(s, id).res = "TEE_SUCCESS"

\* no open handle holds the object stored under id
NoHandleOn(hs, id) == \A h \in HandleIds : ~(hs[h].open /\ hs[h].id = id)

\* C8: a DELETE of a present object that no handle holds open returns
\* success and removes exactly that object: every other object, the handle
\* table and the session are as before, and a READ of the identifier then
\* returns ITEM_NOT_FOUND. A DELETE of an absent identifier returns
\* ITEM_NOT_FOUND and changes nothing. A DELETE of a present object that a
\* handle holds open returns ACCESS_CONFLICT and changes nothing.
C8_Delete ==
    \A s \in Sessions, id \in Ids :
        sess[s].open /\ HasFreeHandle(handles) =>
            LET o == DeleteOf(s, id)
            IN  /\ (store[id].present /\ NoHandleOn(handles, id)) =>
                      /\ o.res = "TEE_SUCCESS"
                      /\ ~o.panic
                      /\ o.store = [store EXCEPT ![id] = Absent]
                      /\ o.handles = handles
                      /\ o.se = sess[s]
                      /\ \A n \in {0, 1, BigBuffer} :
                           ReadOf(o.store, o.handles, s, id, n).res
                               = "TEE_ERROR_ITEM_NOT_FOUND"
                /\ ~store[id].present =>
                      /\ o.res = "TEE_ERROR_ITEM_NOT_FOUND"
                      /\ Untouched(o, store, handles, sess[s])
                /\ (store[id].present /\ ~NoHandleOn(handles, id)) =>
                      /\ o.res = "TEE_ERROR_ACCESS_CONFLICT"
                      /\ Untouched(o, store, handles, sess[s])

\* a DELETE succeeded and left the other object in the store
C8_Witness ==
    /\ last.cmd = "DELETE" /\ last.res = "TEE_SUCCESS"
    /\ \E id \in Ids : ~store[id].present
    /\ \E id \in Ids : store[id].present

\* payloads over the chunk limit: by one byte, and by a whole chunk
Oversized == {BFill(1, CHUNK_SIZE + 1), BFill(2, 2 * CHUNK_SIZE)}

\* C9: a WRITE_CHUNK with more than CHUNK_SIZE bytes of data returns
\* BAD_PARAMETERS and leaves the store, the handle table and the session
\* (in_progress and the object handle) as they were, for either value of
\* is_first, in every session state, and whatever the primitives would do.
C9_OversizedChunk ==
    \A s \in Sessions : sess[s].open =>
        \A id \in Ids, data \in Oversized, is_first \in {0, 1},
           inj \in {"none", "malloc", "create", "write"} :
            LET o == write_raw_chunk(store, handles, sess[s], s, id, data,
                                     is_first, TRUE, inj)
            IN  /\ o.res = "TEE_ERROR_BAD_PARAMETERS"
                /\ Untouched(o, store, handles, sess[s])

\* an oversized chunk was refused in the middle of a chunked write
C9_Witness ==
    /\ last.cmd = "WRITE_CHUNK" /\ last.res = "TEE_ERROR_BAD_PARAMETERS"
    /\ last.fault = "none"
    /\ sess[1].in_progress /\ stream[1].n >= 1

\* C10, as stated: the content of a chunked write that was started and not
\* finalized is never returned by a READ: not while the write is in
\* progress, and not after the writing session was closed without
\* WRITE_FINAL.
C10_NoPartialVisibility ==
    \A s \in Sessions :
        sess[s].open /\ sess[s].in_progress
                     /\ IsOpenHandle(handles, sess[s].object)
        => LET id == handles[sess[s].object].id
               c == TA_CloseSessionEntryPoint(store, handles, sess[s])
           IN  /\ HasFreeHandle(handles) =>
                    ReadOf(store, handles, s, id, BigBuffer).res # "TEE_SUCCESS"
               /\ ReadOf(c.store, c.handles, s, id, BigBuffer).res
                      # "TEE_SUCCESS"

\* a single-shot WRITE of data under id by session s, meeting failure inj
WriteOf(s, id, data, inj) ==
    create_raw_object(store, handles, sess[s], s, id, data, TRUE, inj)

\* C17: a single-shot WRITE of at most CHUNK_SIZE bytes to an identifier
\* that no handle holds open succeeds; whenever it succeeds the object's
\* content is exactly the payload (earlier content is replaced), every other
\* object is unchanged, no handle is left open and the write session is as
\* before. When its append fails the store's error is returned and the
\* object is deleted. A payload over CHUNK_SIZE is refused with nothing
\* changed, whatever the primitives would do.
C17_SingleShotWrite ==
    \A s \in Sessions, id \in Ids :
        sess[s].open /\ HasFreeHandle(handles) =>
            /\ \A data \in ValidChunks :
                 LET o == WriteOf(s, id, data, "none")
                     w == WriteOf(s, id, data, "write")
                 IN  /\ NoHandleOn(handles, id) => o.res = "TEE_SUCCESS"
                     /\ o.res = "TEE_SUCCESS" =>
                          /\ ~o.panic
                          /\ o.store = [store EXCEPT ![id] = Present(data)]
                          /\ o.handles = handles
                          /\ o.se = sess[s]
                     /\ w.fault = "write" =>
                          /\ w.res = StorageFullError
                          /\ w.store = [store EXCEPT ![id] = Absent]
                          /\ w.handles = handles
                          /\ w.se = sess[s]
            /\ \A data \in Oversized, inj \in {"none", "create", "write"} :
                 LET o == WriteOf(s, id, data, inj)
                 IN  /\ o.res # "TEE_SUCCESS"
                     /\ Untouched(o, store, handles, sess[s])

\* a single-shot WRITE succeeded and its full-chunk payload is the content
C17_Witness ==
    /\ last.cmd = "WRITE" /\ last.res = "TEE_SUCCESS"
    /\ store["obj1"] = Present(BFill(2, CHUNK_SIZE))
    /\ NoHandleOn(handles, "obj1")

\* C18, as stated: while a chunked write is in progress on a session, a
\* single-shot WRITE on that session is not carried out: it does not
\* succeed and leaves the store as it was.
C18_WriteExcludedWhileChunking ==
    \A s \in Sessions, id \in Ids, data \in ValidChunks :
        sess[s].open /\ sess[s].in_progress /\ HasFreeHandle(handles) =>
            LET o == WriteOf(s, id, data, "none")
            IN  o.res # "TEE_SUCCESS" /\ o.store = store

\* C19: while a chunked write is in progress the object being written holds
\* exactly the chunks accepted since the first chunk, also when the first
\* chunk found content under the identifier; WRITE_FINAL leaves it so, hence
\* the finalized object holds only the new bytes and its size is the sum of
\* the new chunk lengths. A first chunk on an identifier that holds content
\* and that no handle holds open leaves just that chunk in the object.
C19_FirstChunkTruncates ==
    \A s \in Sessions : sess[s].open =>
        /\ (sess[s].in_progress /\ IsOpenHandle(handles, sess[s].object)) =>
              LET f == write_raw_final(store, handles, sess[s])
                  id == handles[sess[s].object].id
              IN  /\ id = stream[s].id
                  /\ store[id] = Present(stream[s].sent)
                  /\ f.store[id] = Present(stream[s].sent)
                  /\ ReadOf(f.store, f.handles, s, id, BigBuffer).size
                         = BLen(stream[s].sent)
        /\ \A id \in Ids, data \in ValidChunks :
              (store[id].present /\ NoHandleOn(handles, id)
                                 /\ HasFreeHandle(handles)) =>
                  LET o == write_raw_chunk(store, handles, sess[s], s, id,
                                           data, 1, TRUE, "none")
                  IN  /\ o.res = "TEE_SUCCESS"
                      /\ o.store = [store EXCEPT ![id] = Present(data)]

\* a chunked write has just been finalized with more than one byte, and a
\* first chunk of one byte on the same identifier leaves that byte only
C19_Witness ==
    /\ last.cmd = "WRITE_FINAL" /\ last.res = "TEE_SUCCESS"
    /\ sess[1].open /\ ~sess[1].in_progress
    /\ \E id \in Ids :
         /\ store[id].present /\ BLen(store[id].data) > 1
         /\ NoHandleOn(handles, id)
         /\ LET o == write_raw_chunk(store, handles, sess[1], 1, id,
                                     BFill(1, 1), 1, TRUE, "none")
            IN  o.res = "TEE_SUCCESS" /\ o.store[id] = Present(BFill(1, 1))

\* C20: every WRITE_FINAL step taken while in_progress is true returns
\* success, leaves the session idle (in_progress false, the session still
\* open), closes the session's object handle and no other, and leaves every
\* object as the chunks made it.
C20_FinalReturnsToIdle ==
    [][\A s \in Clients :
          (sess[s].open /\ sess[s].in_progress /\ WriteFinal(s)) =>
              /\ last'.res = "TEE_SUCCESS"
              /\ sess'[s].open /\ ~sess'[s].in_progress
              /\ ~IsOpenHandle(handles', sess[s].object)
              /\ handles' = TEE_CloseObject(handles, sess[s].object)
              /\ store' = store]_vars

\* a WRITE_FINAL succeeded on a stream of two chunks
C20_Witness ==
    /\ last.cmd = "WRITE_FINAL" /\ last.res = "TEE_SUCCESS"
    /\ sess[1].open /\ ~sess[1].in_progress
    /\ \E id \in Ids : BLen(store[id].data) = CHUNK_SIZE + 1
    /\ \A h \in HandleIds : ~handles[h].open

\* the handles session s holds open in handle table hs
HandlesOf(hs, s) == {h \in HandleIds : hs[h].open /\ hs[h].owner = s}

\* C24: closing a write session closes every object handle the session
\* opened, whatever commands preceded the close (an unfinalized write, several
\* first chunks in a row), and alters no object's content.
C24_CloseClosesEveryHandle ==
    \A s \in Sessions :
        sess[s].open =>
            LET o == TA_CloseSessionEntryPoint(store, handles, sess[s])
            IN  /\ ~o.panic
                /\ o.store = store
                /\ HandlesOf(o.handles, s) = {}

\* C25: a session holds at most one open object handle, in total and so for
\* each identifier: a first chunk sent while a write is in progress does not
\* leave the earlier handle open beside (or instead of) the session's handle.
C25_AtMostOneHandle ==
    \A s \in Sessions :
        sess[s].open =>
            /\ Cardinality(HandlesOf(handles, s)) <= 1
            /\ HandlesOf(handles, s) \subseteq {sess[s].object}

\* C30: while READ streams an object, a store read that returns fewer bytes
\* than were asked for stops the READ: it returns TEE_ERROR_GENERIC, reads
\* the store no further (the short read is its last), and still closes the
\* handle it opened; the sub-chunks read before are in the buffer and the
\* rest of the buffer is as it was.
C30_ShortReadStops ==
    \A s \in Sessions, id \in Ids, at \in 1..MaxChunks :
        /\ sess[s].open
        /\ TEE_OpenPersistentObject(store, handles, id, ReadOpenFlags)
             = "TEE_SUCCESS"
        /\ (at - 1) * CHUNK_SIZE < BLen(store[id].data)
        => LET r == read_raw_object(store, handles, s, id,
                                    BFill(0, BigBuffer), TRUE,
                                    [kind |-> "read_short", at |-> at])
               done == (at - 1) * CHUNK_SIZE
           IN  /\ r.res = "TEE_ERROR_GENERIC"
               /\ r.reads = at
               /\ r.handles = handles
               /\ BTake(r.out, done) = BTake(store[id].data, done)
               /\ BDrop(r.out, done) = BFill(0, BigBuffer - done)

\* a READ of an object of more than one sub-chunk met a short second read
C30_Witness ==
    /\ last = Last("READ", "TEE_ERROR_GENERIC", "read_short")
    /\ \E id \in Ids :
         /\ BLen(store[id].data) > CHUNK_SIZE
         /\ read_raw_object(store, handles, 1, id, BFill(0, BigBuffer), TRUE,
                            [kind |-> "read_short", at |-> 2]).reads = 2
    /\ \A h \in HandleIds : ~handles[h].open

\* the commands of the storage application at the current state, with the
\* primitive failure inj injected
ChunkOf(s, id, is_first, inj) ==
    write_raw_chunk(store, handles, sess[s], s, id, BFill(1, 1), is_first,
                    TRUE, inj)

ReadFaultOf(s, id, inj) ==
    read_raw_object(store, handles, s, id, BFill(0, BigBuffer), TRUE, inj)

\* the commands of the cipher application at the current state, on one block
EncryptOf(s, is_first, out_sz, inj) ==
    encrypt_chunk(csess[s], ops, kobjs, rng, s, OneBlock, out_sz, is_first, 0,
                  TRUE, inj)

DecryptOf(s, is_first, out_sz, inj) ==
    decrypt_chunk(csess[s], ops, kobjs, rng, s, OneBlock, out_sz, is_first, 0,
                  TRUE, inj)

\* C29, the storage application: a create, open, get-info, append or read
\* that fails with an error makes the command return exactly that error,
\* and the failing primitive is the command's last (a failing read is the
\* READ's last store read); a failed create on a first chunk leaves
\* in_progress as it was and the store as it was.
StoreErrorsSurface ==
    \A s \in Sessions, id \in Ids :
        sess[s].open /\ HasFreeHandle(handles) =>
            /\ \A fail \in BOOLEAN :
                 LET c == TEE_CreatePersistentObject(store, handles, id,
                                                     ChunkCreateFlags, fail)
                     o == ChunkOf(s, id, 1, IF fail THEN "create" ELSE "none")
                     w == WriteOf(s, id, BFill(1, 1),
                                  IF fail THEN "create" ELSE "none")
                 IN  c.res # "TEE_SUCCESS" =>
                       /\ o.res = c.res /\ ~o.panic
                       /\ o.store = store
                       /\ o.se.in_progress = sess[s].in_progress
                       /\ w.res = c.res /\ w.store = store
            /\ LET o == ChunkOf(s, id, 1, "write")
                   w == WriteOf(s, id, BFill(1, 1), "write")
               IN  /\ o.fault = "write" => o.res = StorageFullError
                   /\ w.fault = "write" => w.res = StorageFullError
            /\ LET o == ChunkOf(s, id, 0, "write")
               IN  o.fault = "write" => o.res = StorageFullError
            /\ LET opened == TEE_OpenPersistentObject(store, handles, id,
                                                      ReadOpenFlags)
                   r == ReadFaultOf(s, id, NoFault)
               IN  opened # "TEE_SUCCESS" => r.res = opened /\ r.reads = 0
            /\ LET opened == TEE_OpenPersistentObject(store, handles, id,
                                                      DeleteOpenFlags)
               IN  opened # "TEE_SUCCESS" =>
                     /\ DeleteOf(s, id).res = opened
                     /\ DeleteOf(s, id).store = store
            /\ LET r == ReadFaultOf(s, id, [kind |-> "info", at |-> 0])
               IN  r.fault = "info" => r.res = CorruptError /\ r.reads = 0
            /\ \A at \in 1..MaxChunks :
                 LET r == ReadFaultOf(s, id, [kind |-> "read_err", at |-> at])
                 IN  r.fault = "read_err" =>
                       r.res = CorruptError /\ r.reads = at

\* C29, the cipher application: a key-object allocation, key population,
\* engine allocation or cipher update that fails with an error makes the
\* command return exactly that error, with no output.
CipherErrorsSurface ==
    \A s \in Sessions :
        csess[s].open =>
            /\ \A inj \in {"key_alloc", "key_populate", "op_alloc"} :
                 LET e == EncryptOf(s, 1, AES_BLOCK_SIZE, inj)
                     k == init_crypto_key(csess[s], kobjs, rng, s, inj)
                     i == init_encryption(csess[s], ops, kobjs, s, inj)
                 IN  e.fault = inj =>
                       /\ e.res # "TEE_SUCCESS" /\ e.out = <<>>
                       /\ e.res = IF inj = "op_alloc" THEN i.res ELSE k.res
            /\ LET d == DecryptOf(s, 1, AES_BLOCK_SIZE, "op_alloc")
                   i == init_decryption(csess[s], ops, kobjs, s, "op_alloc")
               IN  d.fault = "op_alloc" =>
                     d.res = i.res /\ d.res # "TEE_SUCCESS" /\ d.out = <<>>
            /\ \A f \in {0, 1} :
                 LET e == EncryptOf(s, f, 0, "none")
                     d == DecryptOf(s, f, 0, "none")
                 IN  /\ e.fault = "short_out" =>
                       e.res = "TEE_ERROR_SHORT_BUFFER" /\ e.out = <<>>
                     /\ d.fault = "short_out" =>
                       d.res = "TEE_ERROR_SHORT_BUFFER" /\ d.out = <<>>

\* C29: whenever a store or cipher primitive a command calls fails with an
\* error, the command returns exactly that error, does not call the
\* primitive again and does not report success; a failed create on a first
\* chunk leaves in_progress as it was and creates no object.
C29_ErrorsSurface == StoreErrorsSurface /\ CipherErrorsSurface

\* a first chunk has just met a failing create while a write was in
\* progress, or an ENCRYPT_CHUNK a cipher update that failed
C29_Witness ==
    \/ /\ last = Last("WRITE_CHUNK", StorageFullError, "create")
       /\ sess[1].in_progress
    \/ /\ clast = Last("ENCRYPT_CHUNK", "TEE_ERROR_SHORT_BUFFER", "short_out")
       /\ csess[1].initialized

\* the payload lengths of the client-level round trip
HostLengths ==
    {0, 1, CHUNK_SIZE - 1, CHUNK_SIZE, CHUNK_SIZE + 1, 10 * CHUNK_SIZE}

\* a payload of L bytes in which the bytes around the first chunk boundary
\* differ: CHUNK_SIZE - 1 bytes of 1, one byte of 2, then bytes of 3
HostPayload(L) ==
    BCat(BFill(1, IF L < CHUNK_SIZE THEN L ELSE CHUNK_SIZE - 1),
         BCat(BFill(2, IF L < CHUNK_SIZE THEN 0 ELSE 1),
              BFill(3, L - CHUNK_SIZE)))

\* C21: on an idle session, for an identifier no handle holds open, the
\* host's chunked write of a payload of each length L in {0, 1,
\* CHUNK_SIZE - 1, CHUNK_SIZE, CHUNK_SIZE + 1, 10 * CHUNK_SIZE} succeeds, and
\* a READ that follows it succeeds and yields the L bytes of the payload.
C21_HostRoundTrip ==
    \A s \in Clients, id \in Ids, L \in HostLengths :
        /\ sess[s].open /\ ~sess[s].in_progress
        /\ NoHandleOn(handles, id) /\ HasFreeHandle(handles)
        => LET w == write_secure_object_chunked(store, handles, sess[s], s,
                                                id, HostPayload(L), 0)
               r == ReadOf(w.store, w.handles, s, id, L)
           IN  /\ w.res = "TEE_SUCCESS"
               /\ r.res = "TEE_SUCCESS"
               /\ r.size = L
               /\ r.out = HostPayload(L)

\* ceil(n / CHUNK_SIZE)
SubChunks(n) == (n + CHUNK_SIZE - 1) \div CHUNK_SIZE

RECURSIVE SumSizes(_, _)
SumSizes(log, k) == IF k = 0 THEN 0 ELSE log[k].size + SumSizes(log, k - 1)

\* C31: READ of an object of dataSize bytes into a buffer of n >= dataSize
\* bytes issues ceil(dataSize / CHUNK_SIZE) store reads; the k-th asks for
\* min(CHUNK_SIZE, dataSize - total_read) bytes and is copied at the offset
\* that is the sum of the earlier sub-chunks; no copy reaches past the
\* buffer, which keeps its size; the loop ends with total_read = dataSize,
\* and the command succeeds with the size field equal to dataSize and the
\* object's bytes at the start of the buffer (no store read for an empty
\* object).
C31_ReadLoop ==
    \A s \in Sessions, id \in Ids :
        (sess[s].open /\ store[id].present /\ HasFreeHandle(handles)
           /\ Readable(handles, id)) =>
            LET content == store[id].data
                dataSize == BLen(content)
            IN  \A n \in {m \in SizesAround(id) : m >= dataSize} :
                    LET r == ReadLoop(content, dataSize, 0, BFill(0, n), 0,
                                      NoFault)
                        o == ReadOf(store, handles, s, id, n)
                    IN  /\ r.res = "TEE_SUCCESS"
                        /\ Len(r.log) = SubChunks(dataSize)
                        /\ r.reads = Len(r.log)
                        /\ \A k \in 1..Len(r.log) :
                             /\ r.log[k].off = SumSizes(r.log, k - 1)
                             /\ r.log[k].size =
                                  (IF dataSize - r.log[k].off > CHUNK_SIZE
                                   THEN CHUNK_SIZE
                                   ELSE dataSize - r.log[k].off)
                             /\ r.log[k].size > 0
                             /\ r.log[k].off + r.log[k].size <= dataSize
                             /\ r.log[k].off + r.log[k].size <= n
                        /\ r.total_read = dataSize
                        /\ BLen(r.buf) = n
                        /\ o.res = "TEE_SUCCESS"
                        /\ o.size = dataSize
                        /\ o.reads = SubChunks(dataSize)
                        /\ o.out = BCat(content, BFill(0, n - dataSize))
                        /\ dataSize = 0 => o.reads = 0 /\ o.out = BFill(0, n)

\* a READ has just succeeded; one object takes two store reads, the second
\* shorter than the first and copied behind it, and one object is empty
C31_Witness ==
    /\ last = Last("READ", "TEE_SUCCESS", "none")
    /\ \E s \in Sessions, id \in Ids :
         /\ sess[s].open /\ store[id].present /\ Readable(handles, id)
         /\ HasFreeHandle(handles)
         /\ LET content == store[id].data
                r == ReadLoop(content, BLen(content), 0,
                              BFill(0, BigBuffer), 0, NoFault)
            IN  /\ Len(r.log) = 2
                /\ r.log[2] = [off |-> CHUNK_SIZE, size |-> 1]
                /\ BTake(r.buf, BLen(content)) = content
                /\ Len(content) = 2
    /\ \E id \in Ids : store[id].present /\ store[id].data = <<>>

\* the WRITE_CHUNK commands among the commands sent
ChunksSent(sent) == SelectSeq(sent, LAMBDA c : c.cmd = "WRITE_CHUNK")

\* C32: for a payload of L > 0 bytes, whatever the state of the session and
\* whichever chunk command the store makes fail, the host's chunked write
\* sends WRITE_CHUNK commands at offsets 0, CHUNK_SIZE, 2 * CHUNK_SIZE, ...,
\* each of CHUNK_SIZE bytes but the last, which takes what is left, with
\* is_first = 1 on the first and 0 on the others; when all succeed they are
\* ceil(L / CHUNK_SIZE) and exactly one WRITE_FINAL follows them; when one
\* fails it is the last command sent, no WRITE_FINAL is sent, and its result
\* is the result of the procedure.
C32_HostCommandOrder ==
    \A s \in Clients, id \in Ids, L \in HostLengths \ {0},
       fail_at \in 0..3 :
        (sess[s].open /\ HasFreeHandle(handles)) =>
            LET w == write_secure_object_chunked(store, handles, sess[s], s,
                                                 id, HostPayload(L), fail_at)
                chunks == ChunksSent(w.sent)
                n == Len(chunks)
                failed == \E k \in 1..n : chunks[k].res # "TEE_SUCCESS"
            IN  /\ n >= 1 /\ n <= SubChunks(L)
                /\ SubSeq(w.sent, 1, n) = chunks
                /\ \A k \in 1..n :
                     /\ chunks[k].off = (k - 1) * CHUNK_SIZE
                     /\ chunks[k].is_first = (IF k = 1 THEN 1 ELSE 0)
                     /\ chunks[k].size > 0
                     /\ chunks[k].size <= CHUNK_SIZE
                     /\ k < SubChunks(L) => chunks[k].size = CHUNK_SIZE
                     /\ k = SubChunks(L) =>
                          chunks[k].size = L - (k - 1) * CHUNK_SIZE
                     /\ k < n => chunks[k].res = "TEE_SUCCESS"
                /\ failed => /\ w.sent = chunks
                             /\ w.res = chunks[n].res
                /\ ~failed => /\ n = SubChunks(L)
                              /\ Len(w.sent) = n + 1
                              /\ w.sent[n + 1].cmd = "WRITE_FINAL"
                              /\ w.res = w.sent[n + 1].res

\* a stream of a full chunk and a chunk of one byte has just been finalized
\* on an idle session, from where the procedure sends ten chunks and WRITE_FINAL for
\* ten chunks of payload, and two chunks and nothing more when the store
\* refuses the second
C32_Witness ==
    \E s \in Clients, id \in Ids :
        /\ last = Last("WRITE_FINAL", "TEE_SUCCESS", "none")
        /\ \E i \in Ids :
             store[i].data = BCat(BFill(2, CHUNK_SIZE), BFill(1, 1))
        /\ sess[s].open /\ ~sess[s].in_progress
        /\ NoHandleOn(handles, id) /\ HasFreeHandle(handles)
        /\ LET w == write_secure_object_chunked(store, handles, sess[s], s,
                       id, HostPayload(10 * CHUNK_SIZE), 0)
               x == write_secure_object_chunked(store, handles, sess[s], s,
                       id, HostPayload(CHUNK_SIZE + 1), 2)
           IN  /\ Len(w.sent) = 11
               /\ w.sent[11] = [cmd |-> "WRITE_FINAL", res |-> "TEE_SUCCESS"]
               /\ Len(x.sent) = 2
               /\ x.sent[2].res # "TEE_SUCCESS"
               /\ x.res = x.sent[2].res

\* C33: whenever a write session has in_progress set, its object field is an
\* open handle of that session onto an object that is in the store.
C33_HandleValid ==
    \A s \in Sessions :
        (sess[s].open /\ sess[s].in_progress) =>
            /\ IsOpenHandle(handles, sess[s].object)
            /\ handles[sess[s].object].owner = s
            /\ store[handles[sess[s].object].id].present

\* C34: while a session is writing the object its most recent successful
\* first chunk opened, a continuation chunk (is_first = 0) of a valid size
\* succeeds whatever identifier it carries, appends its bytes to that
\* object, and leaves every other object, present or absent, and the
\* session as they were.
C34_ContinuationIgnoresId ==
    \A s \in Sessions :
        (sess[s].open /\ sess[s].in_progress
           /\ IsOpenHandle(handles, sess[s].object)) =>
            \A id \in Ids, data \in ValidChunks :
                LET A == stream[s].id
                    o == write_raw_chunk(store, handles, sess[s], s, id, data,
                                         0, TRUE, "none")
                IN  /\ o.res = "TEE_SUCCESS"
                    /\ ~o.panic
                    /\ A \in Ids
                    /\ o.store[A] = Present(BCat(store[A].data, data))
                    /\ \A B \in Ids \ {A} : o.store[B] = store[B]
                    /\ o.se = sess[s]
                    /\ \A h \in HandleIds :
                         h # sess[s].object => o.handles[h] = handles[h]

\* a second chunk has just been accepted in a stream on obj1 while obj2 is
\* absent, and a continuation that names obj2 lengthens obj1 and creates
\* nothing
C34_Witness ==
    \E s \in Sessions :
        /\ last = Last("WRITE_CHUNK", "TEE_SUCCESS", "none")
        /\ sess[s].open /\ sess[s].in_progress
        /\ IsOpenHandle(handles, sess[s].object)
        /\ stream[s].id = "obj1" /\ stream[s].n = 2
        /\ ~store["obj2"].present
        /\ LET o == write_raw_chunk(store, handles, sess[s], s, "obj2",
                                    BFill(1, 1), 0, TRUE, "none")
           IN  /\ BLen(o.store["obj1"].data) = BLen(store["obj1"].data) + 1
               /\ ~o.store["obj2"].present

\* C35: when identifier X holds committed content (the object is present
\* and no handle is open on it) and a chunked write to X is started by an
\* idle session, a failed append, of the first chunk or of the continuation
\* that follows it, leaves X absent from the store: a READ of X returns
\* ITEM_NOT_FOUND and the earlier content is not there again.
C35_FailedOverwriteLosesObject ==
    \A s \in Sessions, X \in Ids :
        (sess[s].open /\ ~sess[s].in_progress /\ store[X].present
           /\ NoHandleOn(handles, X) /\ HasFreeHandle(handles)) =>
            \A d1 \in ValidChunks, d2 \in ValidChunks :
                LET f == write_raw_chunk(store, handles, sess[s], s, X, d1,
                                         1, TRUE, "write")
                    b == write_raw_chunk(store, handles, sess[s], s, X, d1,
                                         1, TRUE, "none")
                    c == write_raw_chunk(b.store, b.handles, b.se, s, X, d2,
                                         0, TRUE, "write")
                IN  /\ b.res = "TEE_SUCCESS"
                    /\ \A o \in {f, c} :
                         /\ o.res = StorageFullError
                         /\ o.store[X] = Absent
                         /\ ~o.se.in_progress
                         /\ \A n \in {0, BLen(store[X].data), BigBuffer} :
                              ReadOf(o.store, o.handles, s, X, n).res
                                  = "TEE_ERROR_ITEM_NOT_FOUND"

\* an append has just failed in a write of obj1 and obj1 is gone, while
\* obj2 holds committed content that a failed overwrite would lose as well
C35_Witness ==
    \E s \in Sessions :
        /\ last = Last("WRITE_CHUNK", StorageFullError, "write")
        /\ sess[s].open /\ ~sess[s].in_progress
        /\ ~store["obj1"].present
        /\ store["obj2"].present /\ store["obj2"].data # <<>>
        /\ NoHandleOn(handles, "obj2") /\ HasFreeHandle(handles)
        /\ ~write_raw_chunk(store, handles, sess[s], s, "obj2", BFill(1, 1),
                            1, TRUE, "write").store["obj2"].present

\* the open handles of handle table hs
OpenHandles(hs) == {h \in HandleIds : hs[h].open}

\* the exit paths of READ
ReadExits ==
    {"TEE_ERROR_BAD_PARAMETERS", "TEE_ERROR_OUT_OF_MEMORY",
     "TEE_ERROR_ITEM_NOT_FOUND", "TEE_ERROR_ACCESS_CONFLICT",
     "TEE_ERROR_SHORT_BUFFER", "TEE_ERROR_GENERIC", CorruptError,
     "TEE_SUCCESS"}

\* READ hands back the handle table it was given
ReadLeavesHandles ==
    \A s \in Sessions, id \in Ids :
        (sess[s].open /\ HasFreeHandle(handles)) =>
            \A in \in {[n |-> n, inj |-> NoFault, ptOk |-> TRUE] :
                          n \in SizesAround(id)}
                     \cup {[n |-> BigBuffer, inj |-> j, ptOk |-> TRUE] :
                             j \in ReadFaults
                                     \cup {[kind |-> "malloc", at |-> 0]}}
                     \cup {[n |-> BigBuffer, inj |-> NoFault,
                             ptOk |-> FALSE]} :
                LET o == read_raw_object(store, handles, s, id,
                                         BFill(0, in.n), in.ptOk, in.inj)
                IN  /\ o.res \in ReadExits
                    /\ o.handles = handles
                    /\ Cardinality(OpenHandles(o.handles))
                         = Cardinality(OpenHandles(handles))

\* a READ step changes neither the store, nor a session, nor the handles
ReadStepChangesNothing ==
    last'.cmd = "READ" =>
        /\ store' = store
        /\ sess' = sess
        /\ handles' = handles

\* C36: on every exit path (wrong parameters, allocation failure, object
\* absent or held for writing, get-info failure, buffer too small, store
\* read error, short store read, success) READ leaves every object, every
\* session's in_progress and handle, and the handle table as they were: the
\* handle it opened is closed and as many handles are open as before.
C36_ReadOnlyLeakFree ==
    []ReadLeavesHandles /\ [][ReadStepChangesNothing]_vars

\* a READ has just stopped on a short store read while the session's write
\* of another object is in progress, with only the write's handle open
C36_Witness ==
    \E s \in Sessions :
        /\ last = Last("READ", "TEE_ERROR_GENERIC", "read_short")
        /\ sess[s].open /\ sess[s].in_progress
        /\ OpenHandles(handles) = {sess[s].object}

---------------------------------------------------------------------------
(* Properties of the cipher application *)

\* longest plaintext of a round trip, in blocks
MaxPlain == 3

\* plaintexts of whole blocks: one block repeated, and two blocks in turn
Plaintexts ==
    UNION {{[i \in 1..n |-> PlainBlock(1)],
            [i \in 1..n |-> PlainBlock(1 + (i % 2))]} : n \in 1..MaxPlain}

\* the ways to cut a sequence of blocks into chunks at block boundaries
RECURSIVE Splits(_)
Splits(P) ==
    IF P = <<>> THEN {<<>>}
    ELSE UNION {{<<SubSeq(P, 1, k)>> \o rest :
                    rest \in Splits(SubSeq(P, k + 1, Len(P)))} : k \in 1..Len(P)}

\* the session and the engines a run of commands starts from
CState(se, os, ks, r) ==
    [se |-> se, ops |-> os, kobjs |-> ks, rng |-> r, out |-> <<>>, ok |-> TRUE]

CNow(s) == CState(csess[s], ops, kobjs, rng)

\* One stream: the chunks sent in order to ENCRYPT_CHUNK ("enc") or
\* DECRYPT_CHUNK ("dec"), the first with is_first=1, each with an output
\* buffer of the size of its input. out is the concatenated output; ok says
\* that every call returned success with an output as long as its input.
RECURSIVE CipherRun(_, _, _, _, _)
CipherRun(cmd, s, chunks, i, acc) ==
    IF i > Len(chunks) THEN acc
    ELSE LET d == CData(chunks[i], 0)
             f == IF i = 1 THEN 1 ELSE 0
             o == IF cmd = "enc"
                  THEN encrypt_chunk(acc.se, acc.ops, acc.kobjs, acc.rng, s, d,
                                     CLen(d), f, 0, TRUE, "none")
                  ELSE decrypt_chunk(acc.se, acc.ops, acc.kobjs, acc.rng, s, d,
                                     CLen(d), f, 0, TRUE, "none")
         IN  CipherRun(cmd, s, chunks, i + 1,
                       [se |-> o.se, ops |-> o.ops, kobjs |-> o.kobjs,
                        rng |-> o.rng, out |-> acc.out \o o.out,
                        ok |-> acc.ok /\ o.res = "TEE_SUCCESS"
                                      /\ o.out_len = CLen(d)])

FreeOps(os) == {h \in OpIds : ~os[h].alloc}

\* the session can get a key and two engines
Resourced(s) ==
    /\ csess[s].open
    /\ Cardinality(FreeOps(ops)) >= 2
    /\ csess[s].initialized \/ HasFreeKeyObj(kobjs)

\* C11: in one session that can get its key and engines, a plaintext of
\* whole blocks encrypted in any chunks at block boundaries gives the same
\* ciphertext and leaves the same session as when sent in one chunk; that
\* ciphertext decrypted in any chunks at block boundaries comes back as the
\* plaintext; and every call writes as many bytes as it was given.
C11_RoundTrip ==
    \A s \in CryptoClients :
        Resourced(s) =>
            \A P \in Plaintexts :
                LET whole == CipherRun("enc", s, <<P>>, 1, CNow(s))
                IN  /\ whole.ok
                    /\ Len(whole.out) = Len(P)
                    /\ \A enc \in Splits(P) :
                         CipherRun("enc", s, enc, 1, CNow(s)) = whole
                    /\ \A dec \in Splits(whole.out) :
                         LET d == CipherRun("dec", s, dec, 1,
                                            [whole EXCEPT !.out = <<>>])
                         IN  d.ok /\ d.out = P

\* a session with streams already under way, where a new round trip of three
\* chunks and one of a single chunk both give the plaintext back
C11_Witness ==
    \E s \in CryptoClients :
        /\ Resourced(s)
        /\ csess[s].initialized
        /\ IsOp(ops, csess[s].enc_op)
        /\ cout[s] # NoData
        /\ LET P == <<PlainBlock(1), PlainBlock(1), PlainBlock(2)>>
               e == CipherRun("enc", s, <<<<P[1]>>, <<P[2]>>, <<P[3]>>>>, 1,
                              CNow(s))
               d == CipherRun("dec", s, <<e.out>>, 1, [e EXCEPT !.out = <<>>])
           IN  e.ok /\ d.ok /\ d.out = P /\ e.out # P


\* the plaintext block that ciphertext block c was made from
PlainOf(c) == c[4][Len(c[4])]

\* the key of an initialized session
KeyOf(s) == kobjs[csess[s].key_handle].key

\* the engines a session holds
EnginesOf(s) ==
    {h \in {csess[s].enc_op, csess[s].dec_op} : IsOp(ops, h)}

BadLengths ==
    {HalfBlock, CData(<<PlainBlock(1)>>, 8), OverChunk,
     CData(OverChunk.blocks, 8)}

\* C13: ENCRYPT_CHUNK with a plaintext that is not a multiple of 16 bytes or
\* is longer than CHUNK_SIZE returns TEE_ERROR_BAD_PARAMETERS for both values
\* of is_first, writes no ciphertext and does not add to total_bytes or
\* total_enc_time_us.
C13_RejectsBadLength ==
    \A s \in CryptoClients :
        csess[s].open =>
            \A d \in BadLengths : \A f \in {0, 1} : \A us \in ElapsedUs :
                LET o == encrypt_chunk(csess[s], ops, kobjs, rng, s, d,
                                       CLen(d), f, us, TRUE, "none")
                IN  /\ o.res = "TEE_ERROR_BAD_PARAMETERS"
                    /\ o.out = <<>>
                    /\ o.se.total_bytes <= csess[s].total_bytes
                    /\ o.se.total_enc_time_us <= csess[s].total_enc_time_us


\* C14: a continuation chunk (is_first=0) sent to DECRYPT_CHUNK of a session
\* that has no decrypt engine, or to ENCRYPT_CHUNK of a session that has no
\* encrypt engine, returns TEE_ERROR_BAD_STATE, and the cipher is not called
\* on the null handle (the application does not panic).
C14_ContinuationWithoutStream ==
    \A s \in CryptoClients :
        csess[s].open =>
            LET d == decrypt_chunk(csess[s], ops, kobjs, rng, s, OneBlock,
                                   CLen(OneBlock), 0, 0, TRUE, "none")
                e == encrypt_chunk(csess[s], ops, kobjs, rng, s, OneBlock,
                                   CLen(OneBlock), 0, 0, TRUE, "none")
            IN  /\ csess[s].dec_op = TEE_HANDLE_NULL =>
                     d.res = "TEE_ERROR_BAD_STATE" /\ ~d.panic
                /\ csess[s].enc_op = TEE_HANDLE_NULL =>
                     e.res = "TEE_ERROR_BAD_STATE" /\ ~e.panic


\* the first chunk of a decrypt stream, one block
DecryptFirst(s, inj) ==
    decrypt_chunk(csess[s], ops, kobjs, rng, s, OneBlock, CLen(OneBlock), 1, 0,
                  TRUE, inj)

\* C15: DECRYPT_CHUNK with is_first=1 in a session whose key has not been
\* generated returns TEE_ERROR_BAD_STATE and changes nothing: session,
\* engines, key objects and random values used stay as they were; and a
\* DECRYPT_CHUNK with is_first=1 succeeds only in a session in which a
\* first-chunk ENCRYPT_CHUNK has succeeded.
C15_DecryptNeedsEncrypt ==
    \A s \in CryptoClients :
        csess[s].open =>
            \A inj \in {"none", "op_alloc", "set_key"} :
                LET d == DecryptFirst(s, inj)
                IN  /\ ~csess[s].initialized =>
                         /\ d.res = "TEE_ERROR_BAD_STATE"
                         /\ d.se = csess[s]
                         /\ d.ops = ops /\ d.kobjs = kobjs /\ d.rng = rng
                         /\ d.out = <<>>
                    /\ d.res = "TEE_SUCCESS" => cfirst[s]


\* every engine an initialized session holds is keyed with the session's key
\* and was started from the session's IV
SameKeyAndIv(s) ==
    csess[s].initialized =>
        /\ IsKeyObj(kobjs, csess[s].key_handle)
        /\ \A h \in EnginesOf(s) :
             ops[h].key = KeyOf(s) /\ ops[h].iv = csess[s].iv

\* one step of a session that has its key and stays open: flag, key object,
\* key and IV stay, and no random value is drawn
KeyKept(s) ==
    (csess[s].open /\ csess[s].initialized /\ csess'[s].open) =>
        /\ csess'[s].initialized
        /\ csess'[s].key_handle = csess[s].key_handle
        /\ kobjs'[csess[s].key_handle] = kobjs[csess[s].key_handle]
        /\ csess'[s].iv = csess[s].iv
        /\ rng' = rng

\* one step in which a session gets its key: it is ENCRYPT_CHUNK, and the key
\* and the IV are the two values drawn in it
KeyMade(s) ==
    (csess[s].open /\ ~csess[s].initialized /\ csess'[s].initialized) =>
        /\ clast'.cmd = "ENCRYPT_CHUNK"
        /\ rng' = rng + 2
        /\ kobjs'[csess'[s].key_handle].key = TEE_GenerateRandom(rng)
        /\ csess'[s].iv = TEE_GenerateRandom(rng + 1)

\* the blocks a command can write to its output buffer with the given input
OutputsOf(s, d, f) ==
    {encrypt_chunk(csess[s], ops, kobjs, rng, s, d, CLen(d), f, 0, TRUE,
                   "none").out,
     decrypt_chunk(csess[s], ops, kobjs, rng, s, d, CLen(d), f, 0, TRUE,
                   "none").out}

\* C16: a session gets its key and IV in one ENCRYPT_CHUNK step; from then on,
\* while the session stays open, initialized stays true and key object, key
\* and IV stay the same through every command, no further random value is
\* drawn, every engine of the session is keyed with that key and started from
\* that IV, and no output block of ENCRYPT_CHUNK or DECRYPT_CHUNK is the key
\* or the IV.
C16_KeyLifecycle ==
    /\ [](\A s \in CryptoClients :
            /\ SameKeyAndIv(s)
            /\ csess[s].open =>
                 \A d \in {OneBlock, cout[s]} : \A f \in {0, 1} :
                     \A out \in OutputsOf(s, d, f) : \A i \in 1..Len(out) :
                         out[i][1] \in {"c", "g", "p"})
    /\ [][\A s \in CryptoClients : KeyKept(s) /\ KeyMade(s)]_vars

\* a session on its second encrypt stream, after a RESET or a later first
\* chunk: the engine is keyed with the one key generated, from the two random
\* values the session has drawn
C16_Witness ==
    \E s \in CryptoClients :
        /\ csess[s].initialized
        /\ rng = 2
        /\ KeyOf(s) = TEE_GenerateRandom(0)
        /\ IsOp(ops, csess[s].enc_op)
        /\ csess[s].enc_op # 1
        /\ ops[csess[s].enc_op].key = KeyOf(s)
        /\ ops[csess[s].enc_op].iv = csess[s].iv
        /\ clast = Last("ENCRYPT_CHUNK", "TEE_SUCCESS", "none")

\* what FINALIZE reports for session s at the current state
StatsOf(s) == finalize_operation(csess[s], TRUE)

StatsAfter(s) == finalize_operation(csess'[s], TRUE)

\* the plaintext bytes session s's encrypt engine has taken since it was last
\* started: none when the session has no engine
StreamBytes(s) ==
    IF IsOp(ops, csess[s].enc_op)
    THEN AES_BLOCK_SIZE * Len(ops[csess[s].enc_op].pre)
    ELSE 0

\* C26, as stated: total bytes is made by the ENCRYPT_CHUNK calls alone (the
\* sum of the input lengths of those that succeeded since the most recent
\* one with is_first=1), so a command other than ENCRYPT_CHUNK leaves what
\* FINALIZE reports as total bytes unchanged.
C26_AsStated ==
    [][\A s \in Sessions :
          csess[s].open /\ csess'[s].open /\ clast'.cmd # "ENCRYPT_CHUNK"
          => StatsAfter(s).bytes = StatsOf(s).bytes]_vars

\* C26: FINALIZE succeeds and reports the encrypt and decrypt times in whole
\* milliseconds (the microsecond counters divided by 1000, rounded down) and
\* as total bytes the bytes the session's encrypt engine has taken since it
\* was last started by an ENCRYPT_CHUNK with is_first=1, zero when a RESET
\* has torn the engine down since; a DECRYPT_CHUNK changes neither the total
\* bytes nor the encrypt time, an ENCRYPT_CHUNK that is rejected leaves the
\* total bytes as they were or at zero, and FINALIZE changes nothing of the
\* session, its engines or its key.
C26_FinalizeStats ==
    /\ [](\A s \in Sessions :
            csess[s].open =>
              /\ StatsOf(s).res = "TEE_SUCCESS"
              /\ StatsOf(s).enc_ms * 1000 <= csess[s].total_enc_time_us
              /\ csess[s].total_enc_time_us < (StatsOf(s).enc_ms + 1) * 1000
              /\ StatsOf(s).dec_ms * 1000 <= csess[s].total_dec_time_us
              /\ csess[s].total_dec_time_us < (StatsOf(s).dec_ms + 1) * 1000
              /\ StatsOf(s).bytes = StreamBytes(s))
    /\ [][\A s \in Sessions :
            csess[s].open /\ csess'[s].open =>
              /\ clast'.cmd = "FINALIZE" =>
                   UNCHANGED <<csess, ops, kobjs, rng>>
              /\ clast'.cmd = "DECRYPT_CHUNK" =>
                   /\ StatsAfter(s).bytes = StatsOf(s).bytes
                   /\ csess'[s].total_enc_time_us = csess[s].total_enc_time_us
              /\ clast'.cmd = "ENCRYPT_CHUNK" /\ clast'.res # "TEE_SUCCESS" =>
                   StatsAfter(s).bytes \in {StatsOf(s).bytes, 0}]_vars

\* FINALIZE has just reported a stream of two blocks encrypted in 1500
\* microseconds, after a decryption
C26_Witness ==
    /\ clast = Last("FINALIZE", "TEE_SUCCESS", "none")
    /\ csess[1].total_enc_time_us = 1500
    /\ csess[1].total_dec_time_us = 1500
    /\ StatsOf(1) = [res |-> "TEE_SUCCESS", enc_ms |-> 1, dec_ms |-> 1,
                     bytes |-> 2 * AES_BLOCK_SIZE]

\* RESET on session s at the current state
ResetOf(s) == reset_session(csess[s], ops, kobjs, rng, s)

\* C27: RESET returns success, frees both engines of the session and sets
\* both engine handles to null, sets the three counters to zero and leaves
\* key object, key, IV and the initialized flag as they were, drawing no
\* random value; and a plaintext encrypted before the RESET comes back from a
\* DECRYPT_CHUNK stream started with is_first=1 after the RESET.
C27_ResetKeepsKey ==
    \A s \in CryptoClients :
        csess[s].open =>
            LET r == ResetOf(s)
            IN  /\ r.res = "TEE_SUCCESS" /\ ~r.panic
                /\ r.se = [csess[s] EXCEPT !.enc_op = TEE_HANDLE_NULL,
                                           !.dec_op = TEE_HANDLE_NULL,
                                           !.total_enc_time_us = 0,
                                           !.total_dec_time_us = 0,
                                           !.total_bytes = 0]
                /\ \A h \in OpIds :
                     r.ops[h] = IF h \in EnginesOf(s) THEN FreeOp ELSE ops[h]
                /\ r.kobjs = kobjs /\ r.rng = rng
                /\ Resourced(s) =>
                     \A P \in Plaintexts :
                         LET e == CipherRun("enc", s, <<P>>, 1, CNow(s))
                             t == reset_session(e.se, e.ops, e.kobjs, e.rng, s)
                             d == CipherRun("dec", s, <<e.out>>, 1,
                                            CState(t.se, t.ops, t.kobjs, t.rng))
                         IN  /\ e.ok /\ t.res = "TEE_SUCCESS"
                             /\ d.ok /\ d.out = P /\ e.out # P

\* a RESET has just torn down both engines of a session that had encrypted
\* and decrypted, and the ciphertext it got before still decrypts
C27_Witness ==
    /\ clast = Last("RESET", "TEE_SUCCESS", "none")
    /\ csess[1].initialized /\ cfirst[1]
    /\ csess[1].enc_op = TEE_HANDLE_NULL /\ csess[1].dec_op = TEE_HANDLE_NULL
    /\ \A h \in OpIds : ~ops[h].alloc
    /\ cout[1] # NoData
    /\ LET d == decrypt_chunk(csess[1], ops, kobjs, rng, 1, cout[1],
                              CLen(cout[1]), 1, 0, TRUE, "none")
       IN  d.res = "TEE_SUCCESS" /\ d.out = <<PlainOf(cout[1].blocks[1])>>

\* the engines and key objects that were allocated for session s
AllocatedFor(os, ks, s) ==
    [engines |-> {h \in OpIds : os[h].alloc /\ os[h].owner = s},
     keys |-> {k \in KeyObjIds : ks[k].alloc /\ ks[k].owner = s}]

\* C28: closing a crypto session discards everything it holds, for every
\* command history that preceded the close: the close does not panic (nothing
\* is freed twice), and after it no engine and no key object that was
\* allocated for the session is still allocated.
C28_CloseDiscardsAll ==
    \A s \in CryptoClients :
        csess[s].open =>
            LET c == CloseCryptoSession(csess[s], ops, kobjs, rng, s)
            IN  /\ ~c.panic
                /\ AllocatedFor(c.ops, c.kobjs, s)
                     = [engines |-> {}, keys |-> {}]


---------------------------------------------------------------------------
(* Properties of two sessions *)

\* what belongs to session s: its two session structs, and the object
\* handles, engines and key objects that were opened or allocated for it
SessionView(s) ==
    [write |-> sess[s],
     handles |-> [h \in HandleIds |->
                    IF handles[h].owner = s THEN handles[h] ELSE ClosedHandle],
     crypto |-> csess[s],
     engines |-> [h \in OpIds |-> IF ops[h].owner = s THEN ops[h] ELSE FreeOp],
     keys |-> [k \in KeyObjIds |->
                 IF kobjs[k].owner = s THEN kobjs[k] ELSE FreeKeyObj]]

\* a step changes what belongs to one session at most
OneSessionChanges ==
    \E a \in Sessions :
        \A b \in Sessions \ {a} : SessionView(b)' = SessionView(b)

\* while session a writes, a continuation chunk and a WRITE_FINAL on the idle
\* session b are refused with TEE_ERROR_BAD_STATE and change nothing
IdleBesideWriter(a, b) ==
    (sess[a].open /\ sess[a].in_progress /\ sess[b].open
                  /\ ~sess[b].in_progress) =>
        /\ \A id \in Ids :
             LET o == ChunkOf(b, id, 0, "none")
             IN  /\ o.res = "TEE_ERROR_BAD_STATE"
                 /\ Untouched(o, store, handles, sess[b])
        /\ LET f == write_raw_final(store, handles, sess[b])
           IN  /\ f.res = "TEE_ERROR_BAD_STATE"
               /\ Untouched(f, store, handles, sess[b])

\* while session a has its key, DECRYPT_CHUNK on session b that has none is
\* not accepted: refused with TEE_ERROR_BAD_STATE as a first chunk, and not
\* successful as a continuation, whether it is given a's ciphertext or not
KeylessBesideKeyed(a, b) ==
    (csess[a].open /\ csess[a].initialized /\ csess[b].open
                   /\ ~csess[b].initialized) =>
        \A d \in {OneBlock, cout[a]} \ {NoData} :
            /\ decrypt_chunk(csess[b], ops, kobjs, rng, b, d, CLen(d), 1, 0,
                             TRUE, "none").res = "TEE_ERROR_BAD_STATE"
            /\ decrypt_chunk(csess[b], ops, kobjs, rng, b, d, CLen(d), 0, 0,
                             TRUE, "none").res # "TEE_SUCCESS"

\* C23: every session has its own in_progress flag, object handle, key, IV,
\* engines and counters: a command changes what belongs to the session it is
\* sent on and to no other, so that a first chunk on session
\* A does not make a continuation chunk or WRITE_FINAL on session B
\* acceptable, and A's key does not make B's DECRYPT_CHUNK acceptable.
C23_SessionIsolation ==
    /\ [](\A a \in PairClients : \A b \in PairClients \ {a} :
            IdleBesideWriter(a, b) /\ KeylessBesideKeyed(a, b))
    /\ [][OneSessionChanges]_vars

\* session 2 has just been refused a WRITE_FINAL while session 1 writes, or a
\* DECRYPT_CHUNK while session 1 has its key and its ciphertext
C23_Witness ==
    \/ /\ sess[1].open /\ sess[1].in_progress
       /\ IsOpenHandle(handles, sess[1].object)
       /\ sess[2].open /\ ~sess[2].in_progress
       /\ last = Last("WRITE_FINAL", "TEE_ERROR_BAD_STATE", "none")
    \/ /\ csess[1].initialized /\ cout[1] # NoData
       /\ csess[2].open /\ ~csess[2].initialized
       /\ clast = Last("DECRYPT_CHUNK", "TEE_ERROR_BAD_STATE", "none")

\* a file of n whole blocks followed by t more bytes
FileOf(n, t) ==
    HostFile([i \in 1..n |-> PlainBlock(1 + (i % 2))],
             IF t = 0 THEN <<>> ELSE <<3, t>>)

\* files shorter than one chunk: empty, less than a block, whole blocks,
\* whole blocks and some bytes
ShortFiles == {FileOf(n, t) : n \in 0..2, t \in {0, 5}}

\* files of one chunk exactly, and of one chunk and some more
LongFiles == {FileOf(ChunkBlocks + n, t) : n \in 0..1, t \in {0, 5}}

\* the encrypted file is the 8-byte header holding the length of f and the
\* ciphertext of f padded up to whole blocks, and decrypt_file gives f back
RoundTrips(s, f) ==
    LET e == encrypt_file(s, f, CNow(s))
        d == decrypt_file(s, e, e.state)
    IN  /\ e.ok
        /\ e.header = FileLen(f)
        /\ Len(e.cipher) = Len(f.blocks) + (IF f.part = <<>> THEN 0 ELSE 1)
        /\ d.ok
        /\ d.out = f

\* C22: in one session that can get its key and engines, encrypt_file then
\* decrypt_file give back a file of exactly the original bytes, whatever its
\* length, a multiple of the block size or not; files longer than one chunk
\* are tried in a session just opened.
C22_FileRoundTrip ==
    \A s \in CryptoClients :
        /\ Resourced(s) => \A f \in ShortFiles : RoundTrips(s, f)
        /\ (csess[s] = NewCryptoSession /\ clast.cmd = "OPEN_SESSION"
              /\ Resourced(s))
             => \A f \in LongFiles : RoundTrips(s, f)

\* a session just opened, where a file of one chunk and five bytes comes
\* back, its ciphertext one padded block longer than its whole blocks
C22_Witness ==
    \E s \in CryptoClients :
        /\ csess[s] = NewCryptoSession
        /\ clast.cmd = "OPEN_SESSION"
        /\ Resourced(s)
        /\ LET f == FileOf(ChunkBlocks, 5)
               e == encrypt_file(s, f, CNow(s))
           IN  /\ Len(e.cipher) = ChunkBlocks + 1
               /\ decrypt_file(s, e, e.state).out = f
               /\ f.part # <<>>

---------------------------------------------------------------------------
(* Properties of one cipher session's state *)

\* C37: an ENCRYPT_CHUNK that returns TEE_ERROR_BAD_PARAMETERS (wrong
\* parameter types, a plaintext longer than CHUNK_SIZE, or one that is not a
\* multiple of 16 bytes, with either value of is_first) leaves the session
\* as it was: initialized, key, IV, both engine handles and the three
\* counters.
C37_RejectedEncryptKeepsSession ==
    \A s \in CryptoClients :
        csess[s].open =>
            \A d \in BadLengths \cup {OneBlock}, f \in {0, 1},
               ptOk \in BOOLEAN :
                LET o == encrypt_chunk(csess[s], ops, kobjs, rng, s, d,
                                       CLen(d), f, 0, ptOk, "none")
                IN  o.res = "TEE_ERROR_BAD_PARAMETERS" => o.se = csess[s]

\* C38: in every reachable state the engines allocated for a crypto session
\* are at most the encrypt engine its enc_op refers to and the decrypt engine
\* its dec_op refers to: no engine is allocated and unreferenced, so that
\* RESET and the close, which free what enc_op and dec_op refer to, free
\* every engine ever allocated.
C38_EngineOwnership ==
    \A s \in CryptoClients :
        /\ AllocatedFor(ops, kobjs, s).engines
              \subseteq {csess[s].enc_op, csess[s].dec_op}
        /\ IsOp(ops, csess[s].enc_op) => ops[csess[s].enc_op].mode = "enc"
        /\ IsOp(ops, csess[s].dec_op) => ops[csess[s].dec_op].mode = "dec"

\* One chunk command of a stream: ENCRYPT_CHUNK ("enc") or DECRYPT_CHUNK
\* ("dec") of data d with is_first = f, into a buffer of the size of d
StreamCmd(kind, f, d) == [kind |-> kind, f |-> f, d |-> d]

\* what the commands cmds, sent in order from state st on, return: for each
\* its stream, its result and its output
RECURSIVE RunCmds(_, _, _, _)
RunCmds(s, cmds, i, st) ==
    IF i > Len(cmds) THEN <<>>
    ELSE LET c == cmds[i]
             o == IF ~st.se.open
                  THEN [res |-> "TEE_ERROR_TARGET_DEAD", out |-> <<>>,
                        se |-> st.se, ops |-> st.ops, kobjs |-> st.kobjs,
                        rng |-> st.rng]
                  ELSE IF c.kind = "enc"
                  THEN encrypt_chunk(st.se, st.ops, st.kobjs, st.rng, s, c.d,
                                     CLen(c.d), c.f, 0, TRUE, "none")
                  ELSE decrypt_chunk(st.se, st.ops, st.kobjs, st.rng, s, c.d,
                                     CLen(c.d), c.f, 0, TRUE, "none")
         IN  <<[kind |-> c.kind, res |-> o.res, out |-> o.out]>>
               \o RunCmds(s, cmds, i + 1,
                          [se |-> o.se, ops |-> o.ops, kobjs |-> o.kobjs,
                           rng |-> o.rng, out |-> <<>>, ok |-> TRUE])

\* the results of the commands of one stream among results rs
OfStream(rs, kind) == SelectSeq(rs, LAMBDA r : r.kind = kind)

\* the ways to interleave sequences a and b, each keeping its order
RECURSIVE Interleavings(_, _)
Interleavings(a, b) ==
    IF a = <<>> THEN {b}
    ELSE IF b = <<>> THEN {a}
    ELSE {<<Head(a)>> \o r : r \in Interleavings(Tail(a), b)}
           \cup {<<Head(b)>> \o r : r \in Interleavings(a, Tail(b))}

\* what of session se and engine table os belongs to the stream of engine
\* field: the engine handle and the engine's state
EngineState(se, os, field) ==
    <<se[field], IF IsOp(os, se[field]) THEN os[se[field]] ELSE FreeOp>>

\* C39: a DECRYPT_CHUNK leaves the encrypt engine, total_enc_time_us and
\* total_bytes as they were, and an ENCRYPT_CHUNK leaves the decrypt engine
\* and total_dec_time_us as they were; and the commands of an encrypt
\* stream interleaved in any way with those of a decrypt stream return, for
\* each stream, what they return when the stream is sent alone (in a
\* session that has its key, without which no decrypt stream starts, and
\* that can get its engines).
C39_StreamsIndependent ==
    \A s \in CryptoClients :
        csess[s].open =>
            /\ \A f \in {0, 1}, us \in ElapsedUs :
                 LET d == decrypt_chunk(csess[s], ops, kobjs, rng, s,
                                        OneBlock, CLen(OneBlock), f, us,
                                        TRUE, "none")
                     e == encrypt_chunk(csess[s], ops, kobjs, rng, s,
                                        OneBlock, CLen(OneBlock), f, us,
                                        TRUE, "none")
                 IN  /\ EngineState(d.se, d.ops, "enc_op")
                          = EngineState(csess[s], ops, "enc_op")
                     /\ d.se.total_enc_time_us = csess[s].total_enc_time_us
                     /\ d.se.total_bytes = csess[s].total_bytes
                     /\ EngineState(e.se, e.ops, "dec_op")
                          = EngineState(csess[s], ops, "dec_op")
                     /\ e.se.total_dec_time_us = csess[s].total_dec_time_us
            /\ (Resourced(s) /\ csess[s].initialized) =>
                 LET C == IF cout[s] = NoData THEN OneBlock ELSE cout[s]
                     E == <<StreamCmd("enc", 1, OneBlock),
                            StreamCmd("enc", 0, OneBlock)>>
                     D == <<StreamCmd("dec", 1, C), StreamCmd("dec", 0, C)>>
                 IN  \A m \in Interleavings(E, D) :
                         LET rs == RunCmds(s, m, 1, CNow(s))
                         IN  /\ OfStream(rs, "enc") = RunCmds(s, E, 1, CNow(s))
                             /\ OfStream(rs, "dec") = RunCmds(s, D, 1, CNow(s))

---------------------------------------------------------------------------
(* Properties of the padding helpers *)

\* the padding pad_data owes to n bytes of data
PaddingOf(n) == AES_BLOCK_SIZE - (n % AES_BLOCK_SIZE)

\* C40: pad_data appends to n bytes of data p = 16 - (n mod 16) bytes,
\* 1 <= p <= 16, each of value p, and returns n + p, a multiple of 16; the
\* n bytes of data and the bytes after the padding stay as they were. When
\* n + p exceeds the buffer size it returns 0 and writes nothing. unpad_data
\* applied to what pad_data made returns n, whatever the n bytes are.
C40_PadUnpad ==
    host.pc \in {"padded", "unpadded"}
    => LET n == host.data_len
           p == PaddingOf(n)
       IN  /\ p \in 1..AES_BLOCK_SIZE
           /\ IF n + p > host.buffer_size
              THEN host.ret = 0 /\ host.data = host.read
              ELSE /\ host.ret = n + p
                   /\ host.ret % AES_BLOCK_SIZE = 0
                   /\ Len(host.data) = host.buffer_size
                   /\ \A i \in 1..host.buffer_size :
                          host.data[i] = IF i > n /\ i <= n + p THEN p
                                         ELSE host.read[i]
           /\ host.pc = "unpadded" => host.unpadded = n

\* a whole block of padding was appended to data that is a multiple of 16
\* bytes long and itself ends in a byte that counts as padding, and
\* unpad_data took off the appended block only
C40_Witness ==
    /\ host.pc = "unpadded"
    /\ host.data_len = 2 * AES_BLOCK_SIZE
    /\ host.read[host.data_len] = 1
    /\ host.ret = 3 * AES_BLOCK_SIZE
    /\ host.data[host.ret] = AES_BLOCK_SIZE
    /\ host.unpadded = host.data_len

=============================================================================
